---- MODULE Spec2Model ----
(***************************************************************************)
(* Model of the mitre_agentic package (src/src/mitre_agentic), in parts,    *)
(* each with its own variables and specification:                          *)
(*   Spec, FairSpec  MitreMcpClient (mcp_client.py): one client object     *)
(*                   shared by NumTasks asyncio tasks;                     *)
(*   RetrySpec       one call of a function decorated with retry_async     *)
(*                   (workflows/nodes.py);                                 *)
(*   NodeSpec        one node function called on a workflow state          *)
(*                   (workflows/nodes.py, workflows/state.py);             *)
(*   GraphSpec,      one run of the investigation graph                    *)
(*   GraphFairSpec   (workflows/graph.py);                                 *)
(*   ChainSpec       the same node functions wired as a chain of three;    *)
(*   RouterSpec      one call of should_run_detection_reasoning            *)
(*                   (workflows/graph.py);                                 *)
(*   StepSpec        one call of an agent function that works through a    *)
(*                   list of techniques (agents/);                         *)
(*   WrappedSpec     one call of a node function through its retry_async   *)
(*                   wrapper (workflows/nodes.py).                         *)
(* Every action is the run of one task from one suspension point (an       *)
(* await that yields to the event loop) to the next, so the interleavings  *)
(* are exactly those of a single-threaded event loop.  A specification     *)
(* leaves the variables of the other parts at rest.                        *)
(***************************************************************************)
EXTENDS Integers, Sequences, FiniteSets, TLC

\* Number of tasks that use the client; each task issues one operation.
NumTasks == 3

Tasks == 1..NumTasks

VARIABLES
    op,            \* op[t]: the client method task t called ("none" before the call)
    pc,            \* pc[t]: the await at which task t is suspended
    result,        \* result[t]: how the method ended for task t
    calledClosing, \* calledClosing[t]: value of _closing when t called its method
    session,       \* self._session: "None" or "obj"
    ctx,           \* self._ctx: "None" or "obj"
    streams,       \* self._read / self._write are set
    connect_lock,  \* self._connect_lock: [locked, waiters]
    close_lock,    \* self._close_lock: [locked, waiters]
    closing,       \* self._closing
    inflight,      \* self._inflight
    no_inflight,   \* self._no_inflight (the event's flag)
    drainWoken,    \* the future of the task waiting on _no_inflight is resolved
    sessState,     \* life cycle of the ClientSession object
    transState,    \* life cycle of the stdio_client context (the transport)
    nAttempts,     \* connection attempts started (stdio_client created)
    nTransport,    \* transports established (ctx.__aenter__ returned)
    nSession,      \* sessions established (initialize returned)
    teardownLog,   \* teardown events of close(), in order
    drained        \* some close() passed the drain wait

taskVars == <<op, pc, result, calledClosing>>
handleVars == <<session, ctx, streams>>
lockVars == <<connect_lock, close_lock>>
flightVars == <<inflight, no_inflight, drainWoken>>
envVars == <<sessState, transState>>
countVars == <<nAttempts, nTransport, nSession>>
closeVars == <<closing, teardownLog, drained>>
vars == <<taskVars, handleVars, lockVars, flightVars, envVars, countVars, closeVars>>

\* State of one call of a function decorated with retry_async
\* (src/src/mitre_agentic/workflows/nodes.py).
VARIABLES
    max_attempts,   \* decorator argument max_attempts
    backoff,        \* decorator argument backoff
    func_raises,    \* the wrapped function raises on its first func_raises invocations
    func_value,     \* what the wrapped function returns when it does not raise
    attempt,        \* loop variable of `for attempt in range(1, max_attempts + 1)`
    invocations,    \* invocations of the wrapped function so far
    sleeps,         \* arguments of the asyncio.sleep calls so far, in order
    last_exception, \* 0 for None, else the invocation whose exception is held
    retry_pc,       \* "off", "ready", "func" (awaiting func), "sleep", "done"
    retry_result    \* how the wrapper ended: a returned value or "raise"

retryInputs == <<max_attempts, backoff, func_raises, func_value>>
retryVars == <<retryInputs, attempt, invocations, sleeps, last_exception,
               retry_pc, retry_result>>

\* the wrapper is not in use
RetryOff ==
    /\ max_attempts = 0 /\ backoff = 0 /\ func_raises = 0 /\ func_value = "none"
    /\ attempt = 0 /\ invocations = 0 /\ sleeps = <<>> /\ last_exception = 0
    /\ retry_pc = "off" /\ retry_result = "none"

\* State of one call of a node function (nodes.py) on a given workflow state.
VARIABLES
    node_name,      \* the node function called
    node_in,        \* the InvestigationState it is called with (a dict)
    node_pc,        \* "off", "ready", "agent" (awaiting its agent), "returned"
    node_out        \* the partial update it returned (a dict)

nodeVars == <<node_name, node_in, node_pc, node_out>>

\* a dict without keys
EmptyDict == [k \in {} |-> 0]

\* no node function is being called on its own
NodeOff ==
    /\ node_name = "none" /\ node_in = EmptyDict
    /\ node_pc = "off" /\ node_out = EmptyDict

\* State of one run of the compiled investigation graph (graph.py).  The
\* graph runs in supersteps: the nodes triggered by the previous superstep
\* run concurrently on the same state, and their updates are merged into the
\* state when all of them have returned.
VARIABLES
    graph_pc,       \* "off", "new", "running", "ended"
    channels,       \* the workflow state (InvestigationState) as merged so far
    superstep,      \* number of the superstep in progress
    active,         \* the nodes of the superstep in progress
    task_pc,        \* task_pc[n]: "idle", "ready", "agent" (awaiting), "done"
    writes,         \* writes[n]: the update node n returned in this superstep
    route,          \* what should_run_detection_reasoning returned ("none" before)
    runs,           \* runs[n]: how many times node n was executed
    edges,          \* the add_edge calls the graph was built with
    outcomes        \* outcomes[n]: how each execution of node n ended and
                    \* the update it returned, in order

graphVars ==
    <<graph_pc, channels, superstep, active, task_pc, writes, route, runs,
      edges, outcomes>>

\* no graph is running
GraphOff ==
    /\ graph_pc = "off" /\ channels = EmptyDict /\ superstep = 0
    /\ active = {} /\ task_pc = EmptyDict /\ writes = EmptyDict
    /\ route = "none" /\ runs = EmptyDict
    /\ edges = {} /\ outcomes = EmptyDict

\* State of one call of should_run_detection_reasoning (graph.py).
VARIABLES
    router_pc,      \* "off", "ready", "returned"
    router_in,      \* the state the function is called with (a dict)
    router_out      \* the successor name it returned ("none" before)

routerVars == <<router_pc, router_in, router_out>>

\* the function is not being called on its own
RouterOff == router_pc = "off" /\ router_in = EmptyDict /\ router_out = "none"

\* State of one call of an agent function that works through a list of
\* techniques (agents/*.py): map_techniques and enrich_with_mitigations start
\* one fetch per technique under a semaphore and gather them,
\* enrich_with_groups_and_software and recommend_detection_telemetry take
\* the techniques one after the other.
VARIABLES
    agent_fn,       \* the function called ("none" when there is no call)
    agent_pc,       \* "off", "called", "running", "returned", "raised"
    techniques,     \* techniques[i]: whether technique i has a stix_id
    concurrency,    \* the concurrency argument (0 where there is none)
    sem,            \* the value of the semaphore
    fetch_pc,       \* fetch_pc[i]: "new", "waiting", "call1", "call2", "done"
    fetch_res,      \* fetch_res[i]: "none", "ok", "absent", "skipped", "exc"
    agent_result    \* what the function returned

stepVars ==
    <<agent_fn, agent_pc, techniques, concurrency, sem, fetch_pc, fetch_res,
      agent_result>>

\* no agent function is being called on its own
StepOff ==
    /\ agent_fn = "none" /\ agent_pc = "off" /\ techniques = <<>>
    /\ concurrency = 0 /\ sem = 0 /\ fetch_pc = <<>> /\ fetch_res = <<>>
    /\ agent_result = EmptyDict

\* the parts of the program a run of the client alone does not touch
notClient == <<retryVars, nodeVars, graphVars, routerVars, stepVars>>
allVars == <<vars, retryVars, nodeVars, graphVars, routerVars, stepVars>>

CallOps == {"call"}
TornStates == {"exiting", "closed", "exitfailed"}

TypeOK ==
    /\ op \in [Tasks -> {"none", "connect", "close"} \cup CallOps]
    /\ pc \in [Tasks -> {"idle", "c_lock", "c_ctx", "c_sess", "c_init", "invoke",
                         "x_lock", "x_drain", "x_sess", "x_ctx", "done"}]
    /\ result \in [Tasks -> {"none", "ok", "ClosingError", "ConnectError",
                             "AttributeError", "AssertionError", "ToolError", "cut",
                             "closed", "noop", "TeardownError"}]
    /\ calledClosing \in [Tasks -> BOOLEAN]
    /\ session \in {"None", "obj"} /\ ctx \in {"None", "obj"} /\ streams \in BOOLEAN
    /\ closing \in BOOLEAN /\ no_inflight \in BOOLEAN /\ drainWoken \in BOOLEAN
    /\ inflight \in 0..NumTasks
    /\ sessState \in {"none", "entering", "initializing", "ready", "failed"} \cup TornStates
    /\ transState \in {"none", "entering", "open", "failed"} \cup TornStates
    /\ drained \in BOOLEAN

-----------------------------------------------------------------------------
(* asyncio.Lock as used by `async with`: acquire takes the lock at once    *)
(* when it is unlocked and nobody waits, otherwise the task queues; a      *)
(* release wakes the first waiter, which takes the lock when it resumes.   *)

NewLock == [locked |-> FALSE, waiters |-> <<>>]

LockFree(l) == ~l.locked /\ l.waiters = <<>>

Locked(l) == [l EXCEPT !.locked = TRUE]

Released(l) == [l EXCEPT !.locked = FALSE]

Enqueued(l, t) == [l EXCEPT !.waiters = Append(@, t)]

CanResume(l, t) == ~l.locked /\ l.waiters # <<>> /\ Head(l.waiters) = t

Granted(l) == [locked |-> TRUE, waiters |-> Tail(l.waiters)]

-----------------------------------------------------------------------------
Init ==
    /\ op = [t \in Tasks |-> "none"]
    /\ pc = [t \in Tasks |-> "idle"]
    /\ result = [t \in Tasks |-> "none"]
    /\ calledClosing = [t \in Tasks |-> FALSE]
    /\ session = "None" /\ ctx = "None" /\ streams = FALSE
    /\ connect_lock = NewLock /\ close_lock = NewLock
    /\ closing = FALSE
    /\ inflight = 0 /\ no_inflight = TRUE /\ drainWoken = FALSE
    /\ sessState = "none" /\ transState = "none"
    /\ nAttempts = 0 /\ nTransport = 0 /\ nSession = 0
    /\ teardownLog = <<>> /\ drained = FALSE

-----------------------------------------------------------------------------
(* _begin_call / _end_call                                                 *)

BeginCallRejects_Never == FALSE

\* `if self._closing: raise RuntimeError(...)`
BeginCallRejects == closing

\* _begin_call, then the remote invocation starts and the task suspends in it
begin_call(t) ==
    IF BeginCallRejects
    THEN /\ pc' = [pc EXCEPT ![t] = "done"]
         /\ result' = [result EXCEPT ![t] = "ClosingError"]
         /\ UNCHANGED <<inflight, no_inflight>>
    ELSE /\ inflight' = inflight + 1
         /\ no_inflight' = IF inflight + 1 = 1 THEN FALSE ELSE no_inflight
         /\ pc' = [pc EXCEPT ![t] = "invoke"]
         /\ UNCHANGED result

EndCallSignals_Never(n) == FALSE

\* `if self._inflight <= 0:` after the decrement of a counter that was n
EndCallSignals(n) == n - 1 <= 0

end_call_Skipped == UNCHANGED <<inflight, no_inflight, drainWoken>>

\* _end_call: decrement, clamp at 0, set the event (which resolves the waiter)
end_call ==
    /\ inflight' = IF inflight - 1 <= 0 THEN 0 ELSE inflight - 1
    /\ no_inflight' = IF EndCallSignals(inflight) THEN TRUE ELSE no_inflight
    /\ drainWoken' = IF /\ EndCallSignals(inflight)
                        /\ ~no_inflight
                        /\ \E u \in Tasks : pc[u] = "x_drain"
                     THEN TRUE ELSE drainWoken

\* a method raises out to task t
Raise(t, err) ==
    /\ pc' = [pc EXCEPT ![t] = "done"]
    /\ result' = [result EXCEPT ![t] = err]
    /\ UNCHANGED <<inflight, no_inflight>>

\* what the caller does once `await self.connect()` returned: connect() itself
\* returns; call_tool/list_tools assert the session, admit the call, invoke.
AfterConnect(t, o, sess) ==
    IF o = "connect"
    THEN /\ pc' = [pc EXCEPT ![t] = "done"]
         /\ result' = [result EXCEPT ![t] = "ok"]
         /\ UNCHANGED <<inflight, no_inflight>>
    ELSE IF sess = "None"
         THEN Raise(t, "AssertionError")
         ELSE begin_call(t)

-----------------------------------------------------------------------------
(* connect()                                                               *)

\* fast path: `if self._session is not None: return`
FastPathConnected == session # "None"

RecheckConnected_Never == FALSE

\* double check under the lock
RecheckConnected == session # "None"

ConnectRefused_Never == FALSE

\* `if self._closing: raise RuntimeError("Client is closing; cannot connect.")`
ConnectRefused == closing

\* the body of `async with self._connect_lock:` up to the first await;
\* lk is the lock as task t holds it
connect_locked(t, o, lk) ==
    IF RecheckConnected
    THEN /\ connect_lock' = Released(lk)
         /\ AfterConnect(t, o, session)
         /\ UNCHANGED <<ctx, transState, nAttempts>>
    ELSE IF ConnectRefused
    THEN /\ connect_lock' = Released(lk)
         /\ Raise(t, "ClosingError")
         /\ UNCHANGED <<ctx, transState, nAttempts>>
    ELSE /\ connect_lock' = lk
         /\ ctx' = "obj"
         /\ transState' = "entering"
         /\ nAttempts' = nAttempts + 1
         /\ pc' = [pc EXCEPT ![t] = "c_ctx"]
         /\ UNCHANGED <<result, inflight, no_inflight>>

\* connect() from its first line to its first suspension
connect_entry(t, o) ==
    IF FastPathConnected
    THEN /\ AfterConnect(t, o, session)
         /\ UNCHANGED <<connect_lock, ctx, transState, nAttempts>>
    ELSE IF LockFree(connect_lock)
    THEN connect_locked(t, o, Locked(connect_lock))
    ELSE /\ connect_lock' = Enqueued(connect_lock, t)
         /\ pc' = [pc EXCEPT ![t] = "c_lock"]
         /\ UNCHANGED <<result, inflight, no_inflight, ctx, transState, nAttempts>>

\* task t calls method o of the client
method_entry(t, o) ==
    /\ op' = [op EXCEPT ![t] = o]
    /\ calledClosing' = [calledClosing EXCEPT ![t] = closing]
    /\ connect_entry(t, o)
    /\ UNCHANGED <<session, streams, close_lock, drainWoken, sessState,
                   nTransport, nSession, closeVars>>

Connect(t) ==
    /\ pc[t] = "idle"
    /\ method_entry(t, "connect")

\* call_tool and list_tools follow one protocol (connect, _begin_call, the
\* awaited remote invocation, _end_call in finally); they differ in the
\* remote method and in how the response is unpacked, so one action stands
\* for a call of either.
Call(t) ==
    /\ pc[t] = "idle"
    /\ method_entry(t, "call")

\* a task queued on _connect_lock is granted the lock
ConnectLockAcquired(t) ==
    /\ pc[t] = "c_lock"
    /\ CanResume(connect_lock, t)
    /\ connect_locked(t, op[t], Granted(connect_lock))
    /\ UNCHANGED <<op, calledClosing, session, streams, close_lock, drainWoken,
                   sessState, nTransport, nSession, closeVars>>

\* `self._read, self._write = await self._ctx.__aenter__()` resumes; on success
\* the ClientSession is created and assigned, and its __aenter__ is awaited
CtxEntered(t) ==
    /\ pc[t] = "c_ctx"
    /\ \E ok \in BOOLEAN :
         IF ok
         THEN /\ streams' = TRUE
              /\ session' = "obj"
              /\ sessState' = "entering"
              /\ transState' = "open"
              /\ nTransport' = nTransport + 1
              /\ pc' = [pc EXCEPT ![t] = "c_sess"]
              /\ UNCHANGED <<result, inflight, no_inflight, connect_lock>>
         ELSE /\ transState' = "failed"
              /\ connect_lock' = Released(connect_lock)
              /\ Raise(t, "ConnectError")
              /\ UNCHANGED <<streams, session, sessState, nTransport>>
    /\ UNCHANGED <<op, calledClosing, ctx, close_lock, drainWoken, nAttempts,
                   nSession, closeVars>>

\* `await self._session.__aenter__()` resumes; then `self._session.initialize()`
\* is evaluated (AttributeError when close() reset the handle) and awaited
SessEntered(t) ==
    /\ pc[t] = "c_sess"
    /\ \E ok \in BOOLEAN :
         IF ~ok
         THEN /\ sessState' = IF sessState = "entering" THEN "failed" ELSE sessState
              /\ connect_lock' = Released(connect_lock)
              /\ Raise(t, "ConnectError")
         ELSE IF session = "None"
         THEN /\ connect_lock' = Released(connect_lock)
              /\ Raise(t, "AttributeError")
              /\ UNCHANGED sessState
         ELSE /\ sessState' = IF sessState = "entering" THEN "initializing"
                              ELSE sessState
              /\ pc' = [pc EXCEPT ![t] = "c_init"]
              /\ UNCHANGED <<result, inflight, no_inflight, connect_lock>>
    /\ UNCHANGED <<op, calledClosing, handleVars, close_lock, drainWoken,
                   transState, countVars, closeVars>>

\* `await self._session.initialize()` resumes; the lock is released and
\* connect() returns to its caller
Initialized(t) ==
    /\ pc[t] = "c_init"
    /\ \E ok \in BOOLEAN :
         IF ok
         THEN /\ sessState' = IF sessState = "initializing" THEN "ready" ELSE sessState
              /\ nSession' = IF sessState = "initializing" THEN nSession + 1
                             ELSE nSession
              /\ connect_lock' = Released(connect_lock)
              /\ AfterConnect(t, op[t], session)
         ELSE /\ sessState' = IF sessState = "initializing" THEN "failed"
                              ELSE sessState
              /\ connect_lock' = Released(connect_lock)
              /\ Raise(t, "ConnectError")
              /\ UNCHANGED nSession
    /\ UNCHANGED <<op, calledClosing, handleVars, close_lock, drainWoken,
                   transState, nAttempts, nTransport, closeVars>>

-----------------------------------------------------------------------------
(* call_tool / list_tools: the remote invocation ends                      *)

\* `await self._session.call_tool(...)` / `list_tools()` resumes with the
\* response or an exception; a session torn down meanwhile cuts the call
\* short. The finally block runs _end_call.
InvokeReturns(t) ==
    /\ pc[t] = "invoke"
    /\ \E ok \in BOOLEAN :
         result' = [result EXCEPT ![t] =
                      IF sessState \in TornStates THEN "cut"
                      ELSE IF ok THEN "ok" ELSE "ToolError"]
    /\ pc' = [pc EXCEPT ![t] = "done"]
    /\ end_call
    /\ UNCHANGED <<op, calledClosing, handleVars, lockVars, envVars, countVars,
                   closeVars>>

-----------------------------------------------------------------------------
(* close()                                                                 *)

TeardownOrder_TransportFirst == <<"ctx", "session">>

\* `# Close MCP session first` ... `# Then close stdio client context`
TeardownOrder == <<"session", "ctx">>

IndexOf(r) == CHOOSE i \in 1..Len(TeardownOrder) : TeardownOrder[i] = r

\* the client state close() works on, as a record
Current ==
    [session |-> session, ctx |-> ctx, streams |-> streams,
     sessState |-> sessState, transState |-> transState,
     log |-> teardownLog, at |-> "done", res |-> "closed"]

RECURSIVE TeardownFrom(_, _)
\* close() from its i-th teardown block to its next suspension or its end:
\* a block is skipped when its handle is None, otherwise __aexit__ is awaited.
\* __aexit__ of a stdio_client context whose __aenter__ is still running
\* raises at once (the generator is already running); the finally block
\* clears the handles and the exception leaves close().
TeardownFrom(i, st) ==
    IF i > Len(TeardownOrder)
    THEN [st EXCEPT !.at = "done", !.res = "closed"]
    ELSE IF TeardownOrder[i] = "session"
    THEN IF st.session = "None"
         THEN TeardownFrom(i + 1, st)
         ELSE [st EXCEPT !.sessState = "exiting",
                         !.log = Append(@, "session_begin"),
                         !.at = "x_sess"]
    ELSE IF st.ctx = "None"
         THEN TeardownFrom(i + 1, st)
         ELSE IF st.transState = "entering"
         THEN [st EXCEPT !.ctx = "None", !.streams = FALSE,
                         !.log = @ \o <<"ctx_begin", "ctx_raise">>,
                         !.at = "done", !.res = "TeardownError"]
         ELSE [st EXCEPT !.transState = "exiting",
                         !.log = Append(@, "ctx_begin"),
                         !.at = "x_ctx"]

\* store the record st; lk is _close_lock as task t holds it, released when
\* close() ends
Apply(t, st, lk) ==
    /\ session' = st.session
    /\ ctx' = st.ctx
    /\ streams' = st.streams
    /\ sessState' = st.sessState
    /\ transState' = st.transState
    /\ teardownLog' = st.log
    /\ pc' = [pc EXCEPT ![t] = st.at]
    /\ result' = [result EXCEPT ![t] = IF st.at = "done" THEN st.res ELSE @]
    /\ close_lock' = IF st.at = "done" THEN Released(lk) ELSE lk

\* `if self._closing: return`
AlreadyClosing == closing

NoInflightSet_Always == TRUE

\* `await self._no_inflight.wait()` returns at once when the event is set
NoInflightSet == no_inflight

CloseLockFree_Always == TRUE

\* `async with self._close_lock:` enters without waiting
CloseLockFree == LockFree(close_lock)

\* the body of `async with self._close_lock:` up to the first suspension
close_locked(t, lk) ==
    IF AlreadyClosing
    THEN /\ close_lock' = Released(lk)
         /\ pc' = [pc EXCEPT ![t] = "done"]
         /\ result' = [result EXCEPT ![t] = "noop"]
         /\ UNCHANGED <<handleVars, envVars, closeVars, drainWoken>>
    ELSE /\ closing' = TRUE
         /\ IF NoInflightSet
            THEN /\ drained' = TRUE
                 /\ Apply(t, TeardownFrom(1, Current), lk)
                 /\ UNCHANGED drainWoken
            ELSE /\ pc' = [pc EXCEPT ![t] = "x_drain"]
                 /\ close_lock' = lk
                 /\ drainWoken' = FALSE
                 /\ UNCHANGED <<result, handleVars, envVars, teardownLog, drained>>

Close(t) ==
    /\ pc[t] = "idle"
    /\ op' = [op EXCEPT ![t] = "close"]
    /\ calledClosing' = [calledClosing EXCEPT ![t] = closing]
    /\ IF CloseLockFree
       THEN close_locked(t, Locked(close_lock))
       ELSE /\ close_lock' = Enqueued(close_lock, t)
            /\ pc' = [pc EXCEPT ![t] = "x_lock"]
            /\ UNCHANGED <<result, handleVars, envVars, closeVars, drainWoken>>
    /\ UNCHANGED <<connect_lock, inflight, no_inflight, countVars>>

\* a task queued on _close_lock is granted the lock
CloseLockAcquired(t) ==
    /\ pc[t] = "x_lock"
    /\ CanResume(close_lock, t)
    /\ close_locked(t, Granted(close_lock))
    /\ UNCHANGED <<op, calledClosing, connect_lock, inflight, no_inflight, countVars>>

\* the wait on _no_inflight resumes once the event was set
CloseDrained(t) ==
    /\ pc[t] = "x_drain"
    /\ drainWoken
    /\ drained' = TRUE
    /\ Apply(t, TeardownFrom(1, Current), close_lock)
    /\ UNCHANGED <<op, calledClosing, connect_lock, closing, flightVars, countVars>>

\* `await self._session.__aexit__(None, None, None)` resumes; the finally
\* block resets the handle; an exception leaves close()
SessExited(t) ==
    /\ pc[t] = "x_sess"
    /\ \E ok \in BOOLEAN :
         LET st == [Current EXCEPT
                      !.session = "None",
                      !.sessState = IF ok THEN "closed" ELSE "exitfailed",
                      !.log = Append(@, IF ok THEN "session_end" ELSE "session_raise")]
         IN IF ok
            THEN Apply(t, TeardownFrom(IndexOf("session") + 1, st), close_lock)
            ELSE Apply(t, [st EXCEPT !.at = "done", !.res = "TeardownError"], close_lock)
    /\ UNCHANGED <<op, calledClosing, connect_lock, closing, drained, flightVars,
                   countVars>>

\* `await self._ctx.__aexit__(None, None, None)` resumes; the finally block
\* resets _ctx, _read and _write; an exception leaves close()
CtxExited(t) ==
    /\ pc[t] = "x_ctx"
    /\ \E ok \in BOOLEAN :
         LET st == [Current EXCEPT
                      !.ctx = "None",
                      !.streams = FALSE,
                      !.transState = IF ok THEN "closed" ELSE "exitfailed",
                      !.log = Append(@, IF ok THEN "ctx_end" ELSE "ctx_raise")]
         IN IF ok
            THEN Apply(t, TeardownFrom(IndexOf("ctx") + 1, st), close_lock)
            ELSE Apply(t, [st EXCEPT !.at = "done", !.res = "TeardownError"], close_lock)
    /\ UNCHANGED <<op, calledClosing, connect_lock, closing, drained, flightVars,
                   countVars>>

-----------------------------------------------------------------------------
Next ==
    \E t \in Tasks :
        \/ Connect(t) /\ UNCHANGED notClient
        \/ Call(t) /\ UNCHANGED notClient
        \/ ConnectLockAcquired(t) /\ UNCHANGED notClient
        \/ CtxEntered(t) /\ UNCHANGED notClient
        \/ SessEntered(t) /\ UNCHANGED notClient
        \/ Initialized(t) /\ UNCHANGED notClient
        \/ InvokeReturns(t) /\ UNCHANGED notClient
        \/ Close(t) /\ UNCHANGED notClient
        \/ CloseLockAcquired(t) /\ UNCHANGED notClient
        \/ CloseDrained(t) /\ UNCHANGED notClient
        \/ SessExited(t) /\ UNCHANGED notClient
        \/ CtxExited(t) /\ UNCHANGED notClient

ClientInit == Init /\ RetryOff /\ NodeOff /\ GraphOff /\ RouterOff /\ StepOff

Spec == ClientInit /\ [][Next]_allVars

\* The event loop resumes every task whose awaited future is resolved; the
\* remote invocations in flight and the teardown awaits of close() are taken
\* to end (with a result or an exception).
CloseProgress(t) ==
    \/ InvokeReturns(t)
    \/ CloseLockAcquired(t)
    \/ CloseDrained(t)
    \/ SessExited(t)
    \/ CtxExited(t)

\* Weak fairness of the joint progress of the awaited calls and teardowns:
\* as long as some such await can resume, one of them does.
FairSpec == Spec /\ WF_allVars(\E t \in Tasks : CloseProgress(t) /\ UNCHANGED notClient)

-----------------------------------------------------------------------------
(* Properties                                                              *)

Range(s) == {s[i] : i \in DOMAIN s}

Count(e) == Cardinality({i \in DOMAIN teardownLog : teardownLog[i] = e})

Connecting == {t \in Tasks : pc[t] \in {"c_ctx", "c_sess", "c_init"}}

\* C1: once a close() has returned no call is in flight (the counter is 0 and
\* no task is inside a remote invocation), and no admitted call is ever cut
\* short by a teardown: each ends with its own result or its own exception.
C1_CloseWaitsForInflight ==
    /\ \A t \in Tasks :
         (op[t] = "close" /\ pc[t] = "done") =>
             (inflight = 0 /\ \A u \in Tasks : pc[u] # "invoke")
    /\ \A t \in Tasks : result[t] # "cut"

\* a close() that had to wait for the drain has returned, and a call ended well
C1_Witness ==
    /\ drainWoken
    /\ \E t \in Tasks : op[t] = "close" /\ result[t] = "closed"
    /\ \E u \in Tasks : op[u] \in CallOps /\ result[u] = "ok"

\* C2: while a task is inside a remote invocation of call_tool/list_tools, no
\* close() has passed its drain wait and the session is not being, and has
\* not been, torn down.
C2_NoCallOnTornSession ==
    \A t \in Tasks : pc[t] = "invoke" => (~drained /\ sessState \notin TornStates)

\* a call is in flight on the ready session while close() waits for it
C2_Witness ==
    /\ \E t \in Tasks : pc[t] = "invoke"
    /\ \E u \in Tasks : pc[u] = "x_drain"
    /\ sessState = "ready"

\* C3: every close() that was called eventually returns, given that the
\* remote invocations in flight and the teardown awaits end. A task calls one
\* method and a returned close() stays returned, so this is: again and again
\* every close() called so far has returned.
C3_CloseTerminates ==
    []<>(\A t \in Tasks : op[t] = "close" => pc[t] = "done")

\* a close() waited for an in-flight call, then tore down both and returned
C3_Witness ==
    /\ drainWoken
    /\ \E t \in Tasks : op[t] = "close" /\ pc[t] = "done" /\ ~calledClosing[t]
    /\ Len(teardownLog) = 4

C5_ConnectOnce ==
    /\ nTransport <= 1
    /\ nSession <= 1
    /\ Cardinality(Connecting) <= 1
    /\ nTransport = 1 => \A t \in Tasks : pc[t] # "c_ctx"

\* two connect() callers returned and one connection was made
C5_Witness ==
    /\ nSession = 1 /\ nAttempts = 1 /\ ~closing
    /\ \E t, u \in Tasks : /\ t # u
                           /\ op[t] = "connect" /\ result[t] = "ok"
                           /\ op[u] = "connect" /\ result[u] = "ok"

\* C6: a remote invocation of call_tool/list_tools is only ever in progress
\* on a session that has been entered and initialized.
C6_InvokeOnlyWhenInitialized ==
    \A t \in Tasks : pc[t] = "invoke" => sessState = "ready"

\* C7: a connect() called once _closing is set does not return normally.
C7_ConnectFailsOnceClosing ==
    \A t \in Tasks :
        (op[t] = "connect" /\ calledClosing[t] /\ pc[t] = "done") => result[t] # "ok"

\* C8: when the session teardown raised inside close(), the transport
\* teardown was still run and close() leaves no handle behind.
C8_TeardownReleasesAll ==
    \A t \in Tasks :
        (op[t] = "close" /\ pc[t] = "done" /\ "session_raise" \in Range(teardownLog)) =>
            /\ "ctx_begin" \in Range(teardownLog)
            /\ session = "None" /\ ctx = "None" /\ ~streams

\* C9: a transport teardown starts only after the session teardown of the
\* same close() has ended, and the transport is never being torn down while
\* the session is open or being torn down.
C9_SessionBeforeTransport ==
    /\ \A i \in DOMAIN teardownLog :
         teardownLog[i] = "ctx_begin" =>
             \A j \in DOMAIN teardownLog :
                 teardownLog[j] = "session_begin" =>
                     /\ j < i
                     /\ \E k \in DOMAIN teardownLog :
                            j < k /\ k < i /\ teardownLog[k] = "session_end"
    /\ transState = "exiting" =>
           sessState \notin {"entering", "initializing", "ready", "exiting"}

\* the transport is being torn down after the session was closed
C9_Witness ==
    /\ \E t \in Tasks : pc[t] = "x_ctx"
    /\ sessState = "closed"
    /\ teardownLog = <<"session_begin", "session_end", "ctx_begin">>

\* C10: the session and the transport are each torn down at most once, a
\* close() called once _closing is set is a no-op, and a no-op close() has
\* returned only when no close() is draining or tearing down any more.
C10_CloseIdempotent ==
    /\ Count("session_begin") <= 1
    /\ Count("ctx_begin") <= 1
    /\ \A t \in Tasks :
         (op[t] = "close" /\ calledClosing[t] /\ pc[t] = "done") => result[t] = "noop"
    /\ \A t \in Tasks :
         (op[t] = "close" /\ result[t] = "noop") =>
             \A u \in Tasks : pc[u] \notin {"x_drain", "x_sess", "x_ctx"}

\* one close() tore down session and transport, a second one was a no-op
C10_Witness ==
    /\ \E t, u \in Tasks : result[t] = "closed" /\ result[u] = "noop"
    /\ Count("session_end") = 1 /\ Count("ctx_end") = 1

\* C11: a remote invocation that raises leaves the client as it was -- it
\* does not set _closing and does not touch the session or the transport
\* fields -- and gives back its in-flight slot; a call_tool/list_tools entered
\* after such a failure, on a client nobody is closing, is admitted.
C11_CallFailureKeepsClient ==
    [][\A t, u \in Tasks :
        /\ (pc[t] = "invoke" /\ pc'[t] = "done" /\ result'[t] = "ToolError") =>
                /\ closing' = closing
                /\ session' = session /\ ctx' = ctx /\ streams' = streams
                /\ sessState' = sessState /\ transState' = transState
                /\ inflight' = inflight - 1
        /\ (/\ result[t] = "ToolError"
            /\ ~closing
            /\ pc[u] = "idle" /\ pc'[u] # "idle" /\ op'[u] \in CallOps) =>
                /\ pc'[u] = "invoke"
                /\ inflight' = inflight + 1]_vars

\* one call has failed, the client is not closing, and a later call is in
\* flight as the only admitted call
C11_Witness ==
    /\ \E t, u \in Tasks :
         /\ pc[t] = "done" /\ result[t] = "ToolError"
         /\ op[u] \in CallOps /\ pc[u] = "invoke"
    /\ ~closing
    /\ session = "obj"
    /\ inflight = 1

\* C12: the in-flight counter is the number of calls that were admitted and
\* have not left their invocation (so it is never negative and a rejected
\* call, which never is in its invocation, does not count), and the drain
\* event is set exactly when the counter is 0.
C12_InflightCountsAdmitted ==
    /\ inflight = Cardinality({t \in Tasks : pc[t] = "invoke"})
    /\ inflight >= 0
    /\ no_inflight <=> inflight = 0

\* one call is in flight, close() waits for it, and another call was
\* rejected by _begin_call
C12_Witness ==
    /\ inflight = 1
    /\ ~no_inflight
    /\ \E u \in Tasks : pc[u] = "x_drain"
    /\ \E t \in Tasks : result[t] = "ClosingError" /\ op[t] \in CallOps

-----------------------------------------------------------------------------
(* retry_async (src/src/mitre_agentic/workflows/nodes.py): one call of a   *)
(* decorated function.  The wrapped function raises on its first           *)
(* func_raises invocations and returns func_value afterwards; as the       *)
(* wrapper stops at the first return, this covers every function.          *)

\* largest max_attempts of the calls explored
MaxAttemptsBound == 3

\* backoff of the decorators in nodes.py: the default 1.0 and mapping's 2.0
Backoffs == {1, 2}

\* what a wrapped function can return: a step output, or an update that
\* carries the function's own error record
FuncValues == {"success", "error_record"}

RetryTypeOK ==
    /\ max_attempts \in 1..MaxAttemptsBound
    /\ backoff \in Backoffs
    /\ func_raises \in 0..MaxAttemptsBound
    /\ func_value \in FuncValues
    /\ attempt \in 0..MaxAttemptsBound
    /\ invocations \in 0..MaxAttemptsBound
    /\ sleeps \in Seq(Nat) /\ Len(sleeps) <= MaxAttemptsBound
    /\ last_exception \in 0..MaxAttemptsBound
    /\ retry_pc \in {"ready", "func", "sleep", "done"}
    /\ retry_result \in FuncValues \cup {"none", "raise", "RuntimeError"}

RetryInit ==
    /\ max_attempts \in 1..MaxAttemptsBound
    /\ backoff \in Backoffs
    /\ func_raises \in 0..MaxAttemptsBound
    /\ func_value \in FuncValues
    /\ attempt = 0 /\ invocations = 0 /\ sleeps = <<>> /\ last_exception = 0
    /\ retry_pc = "ready" /\ retry_result = "none"

InRange_OffByOne(a, n) == a < n

\* `for attempt in range(1, max_attempts + 1)`: attempt a is in the range
InRange(a, n) == a <= n

\* `if attempt < max_attempts:` -- another attempt follows, so wait first
MoreAttempts(a, n) == a < n

WaitTime_NoOffset(b, a) == b * 2^a

\* `wait_time = backoff * (2 ** (attempt - 1))`
WaitTime(b, a) == b * 2^(a - 1)

Retryable_ErrorRecords(outcome) == outcome \in {"raise", "error_record"}

\* `try: return await func(*args, **kwargs)` / `except Exception as e:` --
\* only a raised exception reaches the retry path
Retryable(outcome) == outcome = "raise"

\* how the invocation in progress ends
FuncOutcome == IF invocations <= func_raises THEN "raise" ELSE func_value

\* the for loop arrives at attempt a holding exception exc: either func is
\* invoked again, or the range is exhausted and the code after the loop runs
\* (`if last_exception is not None: raise last_exception`, else RuntimeError)
loop_iter(a, exc) ==
    IF InRange(a, max_attempts)
    THEN /\ attempt' = a
         /\ invocations' = invocations + 1
         /\ retry_pc' = "func"
         /\ UNCHANGED retry_result
    ELSE /\ retry_pc' = "done"
         /\ retry_result' = IF exc # 0 THEN "raise" ELSE "RuntimeError"
         /\ UNCHANGED <<attempt, invocations>>

\* the decorated function is called: the wrapper starts its loop
RetryCalled ==
    /\ retry_pc = "ready"
    /\ loop_iter(1, 0)
    /\ UNCHANGED <<retryInputs, sleeps, last_exception>>

\* the awaited func returns: the wrapper returns that value
FuncReturns ==
    /\ retry_pc = "func"
    /\ ~Retryable(FuncOutcome)
    /\ retry_pc' = "done"
    /\ retry_result' = FuncOutcome
    /\ UNCHANGED <<retryInputs, attempt, invocations, sleeps, last_exception>>

\* the awaited func raises: keep the exception, then sleep or leave the loop
FuncRaises ==
    /\ retry_pc = "func"
    /\ Retryable(FuncOutcome)
    /\ last_exception' = invocations
    /\ IF MoreAttempts(attempt, max_attempts)
       THEN /\ sleeps' = Append(sleeps, WaitTime(backoff, attempt))
            /\ retry_pc' = "sleep"
            /\ UNCHANGED <<attempt, invocations, retry_result>>
       ELSE /\ loop_iter(attempt + 1, invocations)
            /\ UNCHANGED sleeps
    /\ UNCHANGED retryInputs

\* `await asyncio.sleep(wait_time)` returns: next iteration of the loop
SleepEnds ==
    /\ retry_pc = "sleep"
    /\ loop_iter(attempt + 1, last_exception)
    /\ UNCHANGED <<retryInputs, sleeps, last_exception>>

notRetry == <<vars, nodeVars, graphVars, routerVars, stepVars>>

RetryNext ==
    \/ RetryCalled /\ UNCHANGED notRetry
    \/ FuncReturns /\ UNCHANGED notRetry
    \/ FuncRaises /\ UNCHANGED notRetry
    \/ SleepEnds /\ UNCHANGED notRetry

RetryOnlyInit == RetryInit /\ Init /\ NodeOff /\ GraphOff /\ RouterOff /\ StepOff

RetrySpec == RetryOnlyInit /\ [][RetryNext]_allVars

\* C13: a wrapped function that raises on every attempt makes the wrapper
\* return an update that consists of one error record; the wrapper does not
\* raise.
C13_ExhaustionReturnsErrorRecord ==
    (retry_pc = "done" /\ func_raises >= max_attempts) =>
        retry_result = "error_record"

\* C14: the wrapped function is never invoked more than max_attempts times,
\* and when it raises on its first k < max_attempts invocations and then
\* returns, the wrapper returns that value after exactly k + 1 invocations.
C14_RetriesUntilSuccess ==
    /\ invocations <= max_attempts
    /\ (retry_pc = "done" /\ func_raises < max_attempts) =>
           /\ retry_result = func_value
           /\ invocations = func_raises + 1

\* max_attempts = 3, two failures, then the step output is returned
C14_Witness ==
    /\ max_attempts = 3 /\ func_raises = 2 /\ func_value = "success"
    /\ retry_pc = "done" /\ retry_result = "success" /\ invocations = 3

\* C15: a wrapped function that does not raise but returns an update with
\* its own error record is invoked exactly once, no wait is made, and the
\* wrapper returns that update.
C15_ReturnedErrorNotRetried ==
    (func_raises = 0 /\ func_value = "error_record" /\ retry_pc # "ready") =>
        /\ invocations = 1
        /\ sleeps = <<>>
        /\ retry_pc = "done" => retry_result = "error_record"

\* a wrapper with attempts to spare returned the function's error update
C15_Witness ==
    /\ max_attempts = 3 /\ func_raises = 0
    /\ retry_pc = "done" /\ retry_result = "error_record" /\ invocations = 1

\* C16: the i-th wait lasts backoff * 2^(i-1); a wait follows every failed
\* attempt that is not the last one allowed, so a call has made
\* (invocations - 1) waits while func runs and when the call has ended, and
\* no wait follows the final attempt.
C16_BackoffSchedule ==
    /\ \A i \in DOMAIN sleeps : sleeps[i] = backoff * 2^(i - 1)
    /\ retry_pc = "sleep" => Len(sleeps) = invocations
    /\ retry_pc \in {"func", "done"} => Len(sleeps) = invocations - 1

\* three failed attempts with backoff 2: waits of 2 and 4, none after the last
C16_Witness ==
    /\ retry_pc = "done" /\ retry_result = "raise"
    /\ backoff = 2 /\ invocations = 3
    /\ sleeps = <<2, 4>>

-----------------------------------------------------------------------------
(* state.py: the workflow state is a dict; a node returns a partial update, *)
(* also a dict.  Dicts are functions on their keys.  A text, a handle or an *)
(* opaque result is kept as a boolean (set and non-empty or not), a list of *)
(* techniques as its length, dict-valued outputs as dicts.                  *)

\* most techniques an incident yields
MaxTechniques == 2

\* merge_dicts: `{**left, **right}`
merge_dicts(left, right) ==
    [k \in DOMAIN left \cup DOMAIN right |->
        IF k \in DOMAIN right THEN right[k] ELSE left[k]]

\* `state.get(key, default)`
Get(d, key, default) == IF key \in DOMAIN d THEN d[key] ELSE default

\* `not d` for a dict
NoDict(d) == DOMAIN d = {}

\* create_initial_state
create_initial_state(incident_text, mcp_client) ==
    [incident_text |-> incident_text,
     domain |-> "enterprise",
     llm_model |-> "gpt-4o-mini",
     mcp_client |-> mcp_client,
     technique_ids |-> 0,
     confirmed_techniques |-> 0,
     intel |-> EmptyDict,
     detections |-> EmptyDict,
     detection_reasoning |-> EmptyDict,
     mitigations |-> EmptyDict,
     completed_agents |-> <<>>,
     errors |-> <<>>,
     timings |-> EmptyDict]

add_error_WithState(state, agent_name, error) ==
    merge_dicts(state, [errors |-> <<[agent |-> agent_name, error |-> error]>>])

\* add_error (the timestamp of the record is left out)
add_error(state, agent_name, error) ==
    [errors |-> <<[agent |-> agent_name, error |-> error]>>]

mark_agent_complete_Twice(state, agent_name) ==
    [completed_agents |-> <<agent_name, agent_name>>]

\* mark_agent_complete
mark_agent_complete(state, agent_name) ==
    [completed_agents |-> <<agent_name>>]

\* add_timing: a copy of the timings the node was given, plus its own entry
add_timing(state, agent_name, duration) ==
    [timings |-> merge_dicts(Get(state, "timings", EmptyDict),
                             [k \in {agent_name} |-> duration])]

\* a dict display with two `**` parts: `{**a, **b, **c}`
Dict3(a, b, c) == merge_dicts(merge_dicts(a, b), c)

-----------------------------------------------------------------------------
(* nodes.py: the node functions.  Each runs its checks, awaits one agent    *)
(* call, and returns a partial update; out is how the agent call ended:     *)
(* [raised |-> TRUE], or [raised |-> FALSE, value |-> v].                   *)

Nodes == {"triage", "mapping", "intel", "detection", "mitigation",
          "detection_reasoning", "visualization", "report"}

\* the `detection` block of one technique as recommend_detection_telemetry
\* builds it: with its component count, or the fallback block without one
DetectionBlocks ==
    {[mode |-> "datacomponents", total_datacomponents |-> 1],
     [mode |-> "fallback_technique_detection"]}

DetectionItems == {[detection |-> b] : b \in DetectionBlocks}

\* lists of at most n detection items
ItemSeqs(n) == UNION {[1..k -> DetectionItems] : k \in 0..n}

\* triage_node: what it returns before its await, if it returns there
triage_guard(state) ==
    IF ~Get(state, "incident_text", FALSE)
    THEN <<add_error(state, "triage", "No incident text provided")>>
    ELSE <<>>

\* triage_node, given how its awaited agent call ends
triage_node(state, out, duration) ==
    IF triage_guard(state) # <<>> THEN triage_guard(state)[1]
    ELSE IF out.raised THEN add_error(state, "triage", "exception")
    ELSE IF out.value.technique_ids = 0
         THEN add_error(state, "triage", "Triage produced no technique candidates")
         ELSE Dict3([triage_summary |-> out.value.summary,
                     technique_candidates |-> out.value.technique_ids,
                     technique_ids |-> out.value.technique_ids],
                    mark_agent_complete(state, "triage"),
                    add_timing(state, "triage", duration))

mapping_guard_NoClientCheck(state) ==
    IF Get(state, "technique_ids", 0) = 0
    THEN <<add_error(state, "mapping", "No technique IDs from triage")>>
    ELSE <<>>

\* mapping_node: what it returns before its await, if it returns there
mapping_guard(state) ==
    IF Get(state, "technique_ids", 0) = 0
    THEN <<add_error(state, "mapping", "No technique IDs from triage")>>
    ELSE IF ~Get(state, "mcp_client", FALSE)
    THEN <<add_error(state, "mapping", "No MCP client in state")>>
    ELSE <<>>

mapping_node_PartialOutput(state, out, duration) ==
    IF mapping_guard(state) # <<>> THEN mapping_guard(state)[1]
    ELSE IF out.raised
         THEN merge_dicts(add_error(state, "mapping", "exception"),
                          [confirmed_techniques |-> 1])
    ELSE IF out.value = 0
         THEN add_error(state, "mapping", "No techniques confirmed by mapping agent")
         ELSE Dict3([confirmed_techniques |-> out.value],
                    mark_agent_complete(state, "mapping"),
                    add_timing(state, "mapping", duration))

\* mapping_node, given how its awaited agent call ends
mapping_node(state, out, duration) ==
    IF mapping_guard(state) # <<>> THEN mapping_guard(state)[1]
    ELSE IF out.raised THEN add_error(state, "mapping", "exception")
    ELSE IF out.value = 0
         THEN add_error(state, "mapping", "No techniques confirmed by mapping agent")
         ELSE Dict3([confirmed_techniques |-> out.value],
                    mark_agent_complete(state, "mapping"),
                    add_timing(state, "mapping", duration))

intel_guard_ClientOnly(state) ==
    IF ~Get(state, "mcp_client", FALSE)
    THEN <<add_error(state, "mapping", "No MCP client in state")>>
    ELSE <<>>

\* intel_node: what it returns before its await, if it returns there
intel_guard(state) ==
    IF Get(state, "confirmed_techniques", 0) = 0
    THEN <<add_error(state, "intel", "No confirmed techniques")>>
    ELSE IF ~Get(state, "mcp_client", FALSE)
    THEN <<add_error(state, "mapping", "No MCP client in state")>>
    ELSE <<>>

\* intel_node, given how its awaited agent call ends
intel_node(state, out, duration) ==
    IF intel_guard(state) # <<>> THEN intel_guard(state)[1]
    ELSE IF out.raised THEN add_error(state, "intel", "exception")
    ELSE Dict3([intel |-> out.value],
               mark_agent_complete(state, "intel"),
               add_timing(state, "intel", duration))

\* detection_node: what it returns before its await, if it returns there
detection_guard(state) ==
    IF Get(state, "confirmed_techniques", 0) = 0
    THEN <<add_error(state, "detection", "No confirmed techniques")>>
    ELSE IF ~Get(state, "mcp_client", FALSE)
    THEN <<add_error(state, "mapping", "No MCP client in state")>>
    ELSE <<>>

\* detection_node, given how its awaited agent call ends
detection_node(state, out, duration) ==
    IF detection_guard(state) # <<>> THEN detection_guard(state)[1]
    ELSE IF out.raised THEN add_error(state, "detection", "exception")
    ELSE Dict3([detections |-> out.value],
               mark_agent_complete(state, "detection"),
               add_timing(state, "detection", duration))

\* mitigation_node: what it returns before its await, if it returns there
mitigation_guard(state) ==
    IF Get(state, "confirmed_techniques", 0) = 0
    THEN <<add_error(state, "mitigation", "No confirmed techniques")>>
    ELSE IF ~Get(state, "mcp_client", FALSE)
    THEN <<add_error(state, "mitigation", "No MCP client in state")>>
    ELSE <<>>

\* mitigation_node, given how its awaited agent call ends
mitigation_node(state, out, duration) ==
    IF mitigation_guard(state) # <<>> THEN mitigation_guard(state)[1]
    ELSE IF out.raised THEN add_error(state, "mitigation", "exception")
    ELSE Dict3([mitigations |-> out.value],
               mark_agent_complete(state, "mitigation"),
               add_timing(state, "mitigation", duration))

\* detection_reasoning_node: what it returns before its await, if it returns there
detection_reasoning_guard(state) ==
    IF Get(state, "confirmed_techniques", 0) = 0 \/ NoDict(Get(state, "detections", EmptyDict))
    THEN <<add_error(state, "detection_reasoning", "Missing prerequisites")>>
    ELSE <<>>

\* detection_reasoning_node, given how its awaited agent call ends
detection_reasoning_node(state, out, duration) ==
    IF detection_reasoning_guard(state) # <<>> THEN detection_reasoning_guard(state)[1]
    ELSE IF out.raised THEN merge_dicts([detection_reasoning |-> [detection_reasoning |-> 0]],
                                     mark_agent_complete(state, "detection_reasoning"))
    ELSE Dict3([detection_reasoning |-> out.value],
               mark_agent_complete(state, "detection_reasoning"),
               add_timing(state, "detection_reasoning", duration))

visualization_guard_ClientFirst(state) ==
    IF ~Get(state, "mcp_client", FALSE)
    THEN <<add_error(state, "mapping", "No MCP client in state")>>
    ELSE IF Get(state, "confirmed_techniques", 0) = 0
    THEN <<add_error(state, "visualization", "No confirmed techniques")>>
    ELSE <<>>

\* visualization_node: what it returns before its await, if it returns there
visualization_guard(state) ==
    IF Get(state, "confirmed_techniques", 0) = 0
    THEN <<add_error(state, "visualization", "No confirmed techniques")>>
    ELSE IF ~Get(state, "mcp_client", FALSE)
    THEN <<add_error(state, "mapping", "No MCP client in state")>>
    ELSE <<>>

\* visualization_node, given how its awaited agent call ends
visualization_node(state, out, duration) ==
    IF visualization_guard(state) # <<>> THEN visualization_guard(state)[1]
    ELSE IF out.raised THEN add_error(state, "visualization", "exception")
    ELSE Dict3([navigator_layer |-> TRUE, navigator_layer_path |-> TRUE],
               mark_agent_complete(state, "visualization"),
               add_timing(state, "visualization", duration))

report_guard_NeedsMitigations(state) ==
    IF \/ ~Get(state, "triage_summary", FALSE)
       \/ Get(state, "confirmed_techniques", 0) = 0
       \/ NoDict(Get(state, "intel", EmptyDict))
       \/ NoDict(Get(state, "detections", EmptyDict))
       \/ NoDict(Get(state, "mitigations", EmptyDict))
    THEN <<add_error(state, "report", "Missing required data")>>
    ELSE <<>>

\* report_node: what it returns before its await, if it returns there
report_guard(state) ==
    IF \/ ~Get(state, "triage_summary", FALSE)
       \/ Get(state, "confirmed_techniques", 0) = 0
       \/ NoDict(Get(state, "intel", EmptyDict))
       \/ NoDict(Get(state, "detections", EmptyDict))
    THEN <<add_error(state, "report", "Missing required data")>>
    ELSE <<>>

\* report_node, given how its awaited agent call ends
report_node(state, out, duration) ==
    IF report_guard(state) # <<>> THEN report_guard(state)[1]
    ELSE IF out.raised THEN add_error(state, "report", "exception")
    ELSE Dict3([report |-> TRUE, report_markdown |-> TRUE],
               mark_agent_complete(state, "report"),
               add_timing(state, "report", duration))

\* the check part of node n
node_guard(n, state) ==
    CASE n = "triage" -> triage_guard(state)
      [] n = "mapping" -> mapping_guard(state)
      [] n = "intel" -> intel_guard(state)
      [] n = "detection" -> detection_guard(state)
      [] n = "mitigation" -> mitigation_guard(state)
      [] n = "detection_reasoning" -> detection_reasoning_guard(state)
      [] n = "visualization" -> visualization_guard(state)
      [] n = "report" -> report_guard(state)

\* node n as add_node registers it
node_func(n, state, out, duration) ==
    CASE n = "triage" -> triage_node(state, out, duration)
      [] n = "mapping" -> mapping_node(state, out, duration)
      [] n = "intel" -> intel_node(state, out, duration)
      [] n = "detection" -> detection_node(state, out, duration)
      [] n = "mitigation" -> mitigation_node(state, out, duration)
      [] n = "detection_reasoning" -> detection_reasoning_node(state, out, duration)
      [] n = "visualization" -> visualization_node(state, out, duration)
      [] n = "report" -> report_node(state, out, duration)

\* what the agent awaited by node n can return on the given state
AgentValues(n, state) ==
    CASE n = "triage" -> [summary : BOOLEAN, technique_ids : 0..MaxTechniques]
      [] n = "mapping" -> 0..Get(state, "technique_ids", 0)
      [] n = "intel" -> {[domain |-> "enterprise", intel |-> TRUE]}
      [] n = "detection" ->
            {[domain |-> "enterprise", detections |-> items] :
                items \in ItemSeqs(Get(state, "confirmed_techniques", 0))}
      [] n = "mitigation" -> {[domain |-> "enterprise", mitigations |-> TRUE]}
      [] n = "detection_reasoning" ->
            {[detection_reasoning |-> k] :
                k \in 0..Get(state, "confirmed_techniques", 0)}
      [] n \in {"visualization", "report"} -> {TRUE}

AgentReturned(n, state) == {[raised |-> FALSE, value |-> v] : v \in AgentValues(n, state)}

AgentRaised == [raised |-> TRUE]

-----------------------------------------------------------------------------
(* One node function called on its own with an arbitrary workflow state.    *)

\* workflow states a node function can be handed: the initial state with
\* any of the inputs the checks look at set or left empty
NodeInputs ==
    {merge_dicts(create_initial_state(text, client),
                 merge_dicts([technique_ids |-> ids,
                              confirmed_techniques |-> confirmed,
                              intel |-> intel,
                              detections |-> detections],
                             summary)) :
        text \in BOOLEAN, client \in BOOLEAN,
        ids \in {0, 1}, confirmed \in {0, 1},
        intel \in {EmptyDict, [domain |-> "enterprise", intel |-> TRUE]},
        detections \in {EmptyDict, [domain |-> "enterprise", detections |-> <<>>]},
        summary \in {EmptyDict, [triage_summary |-> FALSE], [triage_summary |-> TRUE]}}

NodeInit ==
    /\ node_name \in Nodes
    /\ node_in \in NodeInputs
    /\ node_pc = "ready"
    /\ node_out = EmptyDict

\* the node function runs from its first line to its return or its await
NodeCalled ==
    /\ node_pc = "ready"
    /\ IF node_guard(node_name, node_in) # <<>>
       THEN /\ node_pc' = "returned"
            /\ node_out' = node_guard(node_name, node_in)[1]
       ELSE /\ node_pc' = "agent"
            /\ UNCHANGED node_out
    /\ UNCHANGED <<node_name, node_in>>

\* the awaited agent call returns and the node returns its update
AgentReturns ==
    /\ node_pc = "agent"
    /\ \E out \in AgentReturned(node_name, node_in) :
         node_out' = node_func(node_name, node_in, out, 1)
    /\ node_pc' = "returned"
    /\ UNCHANGED <<node_name, node_in>>

\* the awaited agent call raises and the node's except branch returns
AgentRaises ==
    /\ node_pc = "agent"
    /\ node_out' = node_func(node_name, node_in, AgentRaised, 1)
    /\ node_pc' = "returned"
    /\ UNCHANGED <<node_name, node_in>>

notNode == <<vars, retryVars, graphVars, routerVars, stepVars>>

NodeNext ==
    \/ NodeCalled /\ UNCHANGED notNode
    \/ AgentReturns /\ UNCHANGED notNode
    \/ AgentRaises /\ UNCHANGED notNode

NodeOnlyInit == NodeInit /\ Init /\ RetryOff /\ GraphOff /\ RouterOff /\ StepOff

NodeSpec == NodeOnlyInit /\ [][NodeNext]_allVars

\* an input the checks of node n require is missing or empty in state
MissingInput(n, state) ==
    CASE n = "triage" -> ~Get(state, "incident_text", FALSE)
      [] n = "mapping" ->
            Get(state, "technique_ids", 0) = 0 \/ ~Get(state, "mcp_client", FALSE)
      [] n \in {"intel", "detection", "mitigation", "visualization"} ->
            \/ Get(state, "confirmed_techniques", 0) = 0
            \/ ~Get(state, "mcp_client", FALSE)
      [] n = "detection_reasoning" ->
            \/ Get(state, "confirmed_techniques", 0) = 0
            \/ NoDict(Get(state, "detections", EmptyDict))
      [] n = "report" ->
            \/ ~Get(state, "triage_summary", FALSE)
            \/ Get(state, "confirmed_techniques", 0) = 0
            \/ NoDict(Get(state, "intel", EmptyDict))
            \/ NoDict(Get(state, "detections", EmptyDict))

\* C17: a node function called with a required input missing or empty
\* returns, without awaiting its agent, an update that consists of exactly
\* one error record naming that node: no output, no completed marker, no
\* timing.
C17_MissingInputNamesOwnNode ==
    (node_pc \notin {"off", "ready"} /\ MissingInput(node_name, node_in)) =>
        /\ node_pc = "returned"
        /\ DOMAIN node_out = {"errors"}
        /\ Len(node_out.errors) = 1
        /\ node_out.errors[1].agent = node_name

-----------------------------------------------------------------------------
(* graph.py: the investigation graph.  add_edge(a, b) with a single source  *)
(* makes b run in the superstep after every superstep in which a ran; the   *)
(* conditional edge of detection is evaluated when detection returns, on    *)
(* the state of the superstep with detection's own update applied.          *)

START == "__start__"
END == "__end__"

\* the add_edge calls of create_investigation_graph
Edges ==
    {<<START, "triage">>,
     <<"triage", "mapping">>,
     <<"mapping", "intel">>,
     <<"mapping", "detection">>,
     <<"mapping", "mitigation">>,
     <<"intel", "visualization">>,
     <<"mitigation", "visualization">>,
     <<"detection_reasoning", "visualization">>,
     <<"visualization", "report">>,
     <<"report", END>>}

Reduce_Overwrite(key, old, new) == new

\* the reducers declared in InvestigationState: list concatenation for
\* completed_agents and errors, merge_dicts for timings, else last value
Reduce(key, old, new) ==
    IF key \in {"completed_agents", "errors"} THEN old \o new
    ELSE IF key = "timings" THEN merge_dicts(old, new)
    ELSE new

ApplyUpdate_Replace(state, update) == merge_dicts(state, update)

\* one update merged into the state
ApplyUpdate(state, update) ==
    [k \in DOMAIN state \cup DOMAIN update |->
        IF k \notin DOMAIN update THEN state[k]
        ELSE IF k \notin DOMAIN state THEN update[k]
        ELSE Reduce(k, state[k], update[k])]

ZeroComponents_AtMostOne(total_components) == total_components <= 1

\* `if total_components == 0:`
ZeroComponents(total_components) == total_components = 0

should_run_detection_reasoning_AbsentSkipped(state) ==
    LET detections == Get(state, "detections", EmptyDict)
        detection_list == Get(detections, "detections", <<>>)
    IN IF \E i \in DOMAIN detection_list :
             LET detection_data == Get(detection_list[i], "detection", EmptyDict)
             IN /\ "total_datacomponents" \in DOMAIN detection_data
                /\ detection_data.total_datacomponents = 0
       THEN "detection_reasoning"
       ELSE "visualization"

\* should_run_detection_reasoning
should_run_detection_reasoning(state) ==
    LET detections == Get(state, "detections", EmptyDict)
        detection_list == Get(detections, "detections", <<>>)
    IN IF \E i \in DOMAIN detection_list :
             ZeroComponents(Get(Get(detection_list[i], "detection", EmptyDict),
                                "total_datacomponents", 0))
       THEN "detection_reasoning"
       ELSE "visualization"

\* the path map of add_conditional_edges("detection", ...)
PathMap == [detection_reasoning |-> "detection_reasoning",
            visualization |-> "visualization"]

\* the orders in which the updates of the nodes in S can be merged
Orders(S) ==
    {o \in [1..Cardinality(S) -> S] : \A i, j \in DOMAIN o : i # j => o[i] # o[j]}

RECURSIVE ApplyAll(_, _, _)
\* the updates w of the nodes in order o merged into state, one by one
ApplyAll(state, o, w) ==
    IF o = <<>> THEN state
    ELSE ApplyAll(ApplyUpdate(state, w[Head(o)]), Tail(o), w)

Triggered_StopOnError ==
    {m \in Nodes \cup {END} :
        \E n \in active : <<n, m>> \in edges /\ "errors" \notin DOMAIN writes[n]}
        \cup (IF "detection" \in active /\ "errors" \notin DOMAIN writes["detection"]
              THEN {PathMap[route]} ELSE {})

\* the nodes the superstep in progress triggers
Triggered ==
    {m \in Nodes \cup {END} : \E n \in active : <<n, m>> \in edges}
        \cup (IF "detection" \in active THEN {PathMap[route]} ELSE {})

GraphInit ==
    /\ graph_pc = "new"
    /\ \E text, client \in BOOLEAN : channels = create_initial_state(text, client)
    /\ superstep = 0
    /\ active = {}
    /\ task_pc = [n \in Nodes |-> "idle"]
    /\ writes = [n \in Nodes |-> EmptyDict]
    /\ route = "none"
    /\ runs = [n \in Nodes |-> 0]
    /\ edges = Edges
    /\ outcomes = [n \in Nodes |-> <<>>]

\* app.ainvoke(initial_state): the START edge triggers triage
GraphInvoked ==
    /\ graph_pc = "new"
    /\ graph_pc' = "running"
    /\ superstep' = 1
    /\ active' = {m \in Nodes : <<START, m>> \in edges}
    /\ task_pc' = [n \in Nodes |-> IF <<START, n>> \in edges THEN "ready" ELSE "idle"]
    /\ UNCHANGED <<channels, writes, route, runs, edges, outcomes>>

\* an execution of node n ended in the way `kind` ("missing": a check of its
\* inputs failed, "raised": the agent call raised, "returned": the agent
\* call returned) and returned update
Recorded(n, kind, update) ==
    outcomes' = [outcomes EXCEPT ![n] = Append(@, [kind |-> kind, update |-> update])]

\* node n returns update: the update is kept for the end of the superstep,
\* and detection's conditional edge picks its successor
TaskDone(n, update) ==
    /\ task_pc' = [task_pc EXCEPT ![n] = "done"]
    /\ writes' = [writes EXCEPT ![n] = update]
    /\ route' = IF n = "detection"
                THEN should_run_detection_reasoning(ApplyUpdate(channels, update))
                ELSE route

\* a node of the superstep starts: it returns from its checks or awaits
TaskStarts(n) ==
    /\ graph_pc = "running"
    /\ task_pc[n] = "ready"
    /\ runs' = [runs EXCEPT ![n] = @ + 1]
    /\ IF node_guard(n, channels) # <<>>
       THEN /\ TaskDone(n, node_guard(n, channels)[1])
            /\ Recorded(n, "missing", node_guard(n, channels)[1])
       ELSE /\ task_pc' = [task_pc EXCEPT ![n] = "agent"]
            /\ UNCHANGED <<writes, route, outcomes>>
    /\ UNCHANGED <<graph_pc, channels, superstep, active, edges>>

\* the agent call a node awaits returns
TaskAgentReturns(n) ==
    /\ task_pc[n] = "agent"
    /\ \E out \in AgentReturned(n, channels) :
         /\ TaskDone(n, node_func(n, channels, out, superstep))
         /\ Recorded(n, "returned", node_func(n, channels, out, superstep))
    /\ UNCHANGED <<graph_pc, channels, superstep, active, runs, edges>>

\* the agent call a node awaits raises
TaskAgentRaises(n) ==
    /\ task_pc[n] = "agent"
    /\ TaskDone(n, node_func(n, channels, AgentRaised, superstep))
    /\ Recorded(n, "raised", node_func(n, channels, AgentRaised, superstep))
    /\ UNCHANGED <<graph_pc, channels, superstep, active, runs, edges>>

\* all nodes of the superstep returned: their updates are merged and the
\* nodes they trigger form the next superstep; the run ends when only END
\* is left
SuperstepEnds ==
    /\ graph_pc = "running"
    /\ \A n \in active : task_pc[n] = "done"
    /\ \E o \in Orders(active) : channels' = ApplyAll(channels, o, writes)
    /\ active' = Triggered \ {END}
    /\ task_pc' = [n \in Nodes |-> IF n \in Triggered THEN "ready" ELSE "idle"]
    /\ writes' = [n \in Nodes |-> EmptyDict]
    /\ superstep' = superstep + 1
    /\ graph_pc' = IF Triggered \ {END} = {} THEN "ended" ELSE "running"
    /\ UNCHANGED <<route, runs, edges, outcomes>>

notGraph == <<vars, retryVars, nodeVars, routerVars, stepVars>>

GraphNext ==
    \/ GraphInvoked /\ UNCHANGED notGraph
    \/ \E n \in Nodes :
        \/ TaskStarts(n) /\ UNCHANGED notGraph
        \/ TaskAgentReturns(n) /\ UNCHANGED notGraph
        \/ TaskAgentRaises(n) /\ UNCHANGED notGraph
    \/ SuperstepEnds /\ UNCHANGED notGraph

GraphOnlyInit == GraphInit /\ Init /\ RetryOff /\ NodeOff /\ RouterOff /\ StepOff

GraphSpec == GraphOnlyInit /\ [][GraphNext]_allVars

\* executions of node n that have returned
Finished(n) == runs[n] - (IF task_pc[n] = "agent" THEN 1 ELSE 0)

\* the detection output as far as detection has returned it
DetectionOutput ==
    IF "detections" \in DOMAIN writes["detection"]
    THEN writes["detection"].detections
    ELSE Get(channels, "detections", EmptyDict)

\* every item of the detection output counts at least one data component
\* (so also when the output is empty or its list is)
AllNonZero ==
    LET detection_list == Get(DetectionOutput, "detections", <<>>)
    IN \A i \in DOMAIN detection_list :
           /\ "total_datacomponents" \in DOMAIN detection_list[i].detection
           /\ detection_list[i].detection.total_datacomponents > 0

\* C18: when visualization has started, intel, detection and mitigation
\* have returned, and so has detection_reasoning if the conditional edge
\* selected it.
C18_FanInAfterPredecessors ==
    (graph_pc \in {"running", "ended"} /\ runs["visualization"] >= 1) =>
        /\ \A p \in {"intel", "detection", "mitigation"} : Finished(p) >= 1
        /\ route = "detection_reasoning" => Finished("detection_reasoning") >= 1

\* C19: no node is executed more than once in a run, and a finished run
\* executed visualization and report exactly once.
C19_EachNodeOnce ==
    graph_pc \in {"running", "ended"} =>
        /\ \A n \in Nodes : runs[n] <= 1
        /\ graph_pc = "ended" => runs["visualization"] = 1 /\ runs["report"] = 1

\* C20: detection_reasoning is not executed before detection has returned,
\* and never when every item of the detection output counts at least one
\* data component (or the output is empty): then it is neither scheduled
\* nor run, and the state holds no completed marker, error record, timing
\* or output of it.
C20_ReasoningSkipped ==
    (/\ graph_pc \in {"running", "ended"}
     /\ Finished("detection") = 0 \/ AllNonZero) =>
        /\ runs["detection_reasoning"] = 0
        /\ "detection_reasoning" \notin active
        /\ task_pc["detection_reasoning"] = "idle"
        /\ \A i \in DOMAIN channels.completed_agents :
               channels.completed_agents[i] # "detection_reasoning"
        /\ \A i \in DOMAIN channels.errors :
               channels.errors[i].agent # "detection_reasoning"
        /\ "detection_reasoning" \notin DOMAIN channels.timings
        /\ channels.detection_reasoning = EmptyDict

\* a run ended whose detection output has two items, both with data
\* components, and in which detection_reasoning was never executed
C20_Witness ==
    /\ graph_pc = "ended"
    /\ Len(Get(channels.detections, "detections", <<>>)) = 2
    /\ AllNonZero
    /\ runs["detection_reasoning"] = 0
    /\ runs["report"] = 1
    /\ \E i \in DOMAIN channels.completed_agents :
           channels.completed_agents[i] = "report"

-----------------------------------------------------------------------------
(* should_run_detection_reasoning called on its own, on any state whose     *)
(* detection output has the shape the function reads.                       *)

\* largest component count of a detection block explored
MaxComponents == 2

\* longest detection list explored
MaxItems == 3

\* the `detection` block recommend_detection_telemetry builds for one
\* technique from the count the server reports and the number of component
\* names it extracts: the fallback block `if count == 0 or total == 0`
detection_block(count, total) ==
    IF count = 0 \/ total = 0
    THEN [mode |-> "fallback_technique_detection"]
    ELSE [mode |-> "datacomponents", total_datacomponents |-> total]

\* the blocks recommend_detection_telemetry can build
AgentBlocks == {detection_block(c, t) : c, t \in 0..MaxComponents}

\* blocks of either mode, with any count where there is one
AnyBlocks ==
    {[mode |-> "fallback_technique_detection"]}
        \cup {[mode |-> "datacomponents", total_datacomponents |-> n] :
                 n \in 0..MaxComponents}

\* list items, also one without a `detection` key
AnyItems ==
    {[technique |-> "T1059"]}
        \cup {[technique |-> "T1059", detection |-> b] : b \in AnyBlocks}

\* values of the `detections` field: the initial {}, a dict without a list,
\* and dicts with a list of at most MaxItems items
AnyDetections ==
    {EmptyDict, [domain |-> "enterprise"]}
        \cup {[domain |-> "enterprise", detections |-> items] :
                 items \in UNION {[1..k -> AnyItems] : k \in 0..MaxItems}}

\* states the function is called with, also one without the field
RouterInputs ==
    {[incident_text |-> TRUE]}
        \cup {merge_dicts(create_initial_state(TRUE, TRUE), [detections |-> d]) :
                 d \in AnyDetections}

RouterInit ==
    /\ router_pc = "ready"
    /\ router_in \in RouterInputs
    /\ router_out = "none"

\* the conditional edge calls the function
RouterCalled ==
    /\ router_pc = "ready"
    /\ router_pc' = "returned"
    /\ router_out' = should_run_detection_reasoning(router_in)
    /\ UNCHANGED router_in

notRouter == <<vars, retryVars, nodeVars, graphVars, stepVars>>

RouterNext == RouterCalled /\ UNCHANGED notRouter

RouterOnlyInit == RouterInit /\ Init /\ RetryOff /\ NodeOff /\ GraphOff /\ StepOff

RouterSpec == RouterOnlyInit /\ [][RouterNext]_allVars

\* the detection list of a state, empty when the state has none
DetectionList(state) ==
    IF "detections" \in DOMAIN state /\ "detections" \in DOMAIN state.detections
    THEN state.detections.detections
    ELSE <<>>

\* item has no total_datacomponents, or has it equal to 0
ZeroOrAbsent(item) ==
    \/ "detection" \notin DOMAIN item
    \/ "total_datacomponents" \notin DOMAIN item.detection
    \/ item.detection.total_datacomponents = 0

\* every item of the list is one recommend_detection_telemetry builds
AgentBuilt(list) ==
    \A i \in DOMAIN list :
        "detection" \in DOMAIN list[i] /\ list[i].detection \in AgentBlocks

\* C21: the function returns one of the two successor names, and
\* "detection_reasoning" exactly when some item of the detection list has no
\* total_datacomponents or has it equal to 0; on a list built by
\* recommend_detection_telemetry that is exactly when some block is a
\* fallback block.
C21_RouterChoosesByZeroCount ==
    router_pc = "returned" =>
        LET list == DetectionList(router_in)
        IN /\ router_out \in {"detection_reasoning", "visualization"}
           /\ router_out = "detection_reasoning" <=>
                  \E i \in DOMAIN list : ZeroOrAbsent(list[i])
           /\ AgentBuilt(list) =>
                  (router_out = "detection_reasoning" <=>
                      \E i \in DOMAIN list :
                          list[i].detection.mode = "fallback_technique_detection")

\* detection_reasoning is chosen for a list of three items built by the
\* agent of which the last only is a fallback block
C21_Witness ==
    /\ router_pc = "returned"
    /\ router_out = "detection_reasoning"
    /\ Len(DetectionList(router_in)) = 3
    /\ AgentBuilt(DetectionList(router_in))
    /\ ~ZeroOrAbsent(DetectionList(router_in)[1])
    /\ ~ZeroOrAbsent(DetectionList(router_in)[2])
    /\ DetectionList(router_in)[3].detection.mode = "fallback_technique_detection"

-----------------------------------------------------------------------------
(* The run of the graph under the scheduling of the event loop: a node that *)
(* can start does start, an awaited agent call returns or raises, and a     *)
(* superstep whose nodes have all returned is closed.                       *)

GraphFairSpec == GraphSpec /\ WF_allVars(GraphNext)

\* the nodes on the path the conditional edge selected
SelectedPath ==
    {"triage", "mapping", "intel", "detection", "mitigation",
     "visualization", "report"}
        \cup (IF route = "detection_reasoning" THEN {"detection_reasoning"} ELSE {})

\* the Error Records of an update
ErrorsOf(update) == Get(update, "errors", <<>>)

\* every Error Record a node returned is in the error list of the state
ErrorsAccumulated ==
    \A n \in Nodes : \A i \in DOMAIN outcomes[n] :
        \A j \in DOMAIN ErrorsOf(outcomes[n][i].update) :
            \E k \in DOMAIN channels.errors :
                channels.errors[k] = ErrorsOf(outcomes[n][i].update)[j]

\* some execution of node n failed: a check of its inputs failed or its
\* agent call raised
Failed(n) ==
    \E i \in DOMAIN outcomes[n] : outcomes[n][i].kind \in {"missing", "raised"}

\* C22: whichever nodes fail, by a missing input or by an exception in their
\* work, the run reaches the end marker, every node on the selected path
\* (report among them) has been executed by then, and the final state holds
\* every Error Record the nodes returned.
C22_ContinuesOnFailure ==
    <>(/\ graph_pc = "ended"
       /\ \A n \in SelectedPath : Finished(n) >= 1
       /\ Finished("report") >= 1
       /\ ErrorsAccumulated)

\* the run ended although triage raised and every later node found its
\* inputs missing; all of them were executed and left an Error Record
C22_Witness ==
    /\ graph_pc = "ended"
    /\ outcomes["triage"][1].kind = "raised"
    /\ \A n \in SelectedPath : Finished(n) >= 1 /\ Failed(n)
    /\ Len(channels.errors) >= Cardinality(SelectedPath)

-----------------------------------------------------------------------------
(* The merge of the updates of intel, detection and mitigation.             *)

Siblings == {"intel", "detection", "mitigation"}

\* intel, detection and mitigation have all returned and their updates are
\* about to be merged
SiblingsMerging ==
    /\ graph_pc = "running"
    /\ active = Siblings
    /\ \A n \in Siblings : task_pc[n] = "done"

\* the state after the siblings' updates are merged in order o
MergedIn(o) == ApplyAll(channels, o, writes)

\* how many times x occurs in the sequence s
Occurrences(s, x) == Cardinality({i \in DOMAIN s : s[i] = x})

\* s and t hold the same entries, each the same number of times
SameEntries(s, t) ==
    /\ Len(s) = Len(t)
    /\ \A i \in DOMAIN s : Occurrences(s, s[i]) = Occurrences(t, s[i])

\* C23 as stated: every order of merging the updates of intel, detection and
\* mitigation gives the same state, field for field.
C23_AnyOrderSameState ==
    SiblingsMerging =>
        \A o1, o2 \in Orders(Siblings) : MergedIn(o1) = MergedIn(o2)

\* C23: every order of merging the updates of intel, detection and
\* mitigation gives the same fields with the same values, except that
\* completed_agents and errors hold the same entries (each as many times) in
\* an order that follows the order of merging.
C23_AnyOrderSameUpToListOrder ==
    SiblingsMerging =>
        \A o1, o2 \in Orders(Siblings) :
            /\ DOMAIN MergedIn(o1) = DOMAIN MergedIn(o2)
            /\ \A k \in DOMAIN MergedIn(o1) :
                 IF k \in {"completed_agents", "errors"}
                 THEN SameEntries(MergedIn(o1)[k], MergedIn(o2)[k])
                 ELSE MergedIn(o1)[k] = MergedIn(o2)[k]

\* the three siblings all completed, and two orders of merging give lists of
\* markers that differ
C23_Witness ==
    /\ SiblingsMerging
    /\ \A n \in Siblings : "completed_agents" \in DOMAIN writes[n]
    /\ \E o1, o2 \in Orders(Siblings) :
         MergedIn(o1).completed_agents # MergedIn(o2).completed_agents

\* the list update returns for the accumulator key, empty if it has none
ListOf(update, key) == Get(update, key, <<>>)

\* the list `after` is the list `before` followed by the entries the three
\* siblings returned for key, each exactly as many times as it was returned
KeepsEntries(key, before, after) ==
    /\ Len(after) = Len(before) + Len(ListOf(writes["intel"], key))
                                + Len(ListOf(writes["detection"], key))
                                + Len(ListOf(writes["mitigation"], key))
    /\ SubSeq(after, 1, Len(before)) = before
    /\ \A n \in Siblings : \A i \in DOMAIN ListOf(writes[n], key) :
         Occurrences(after, ListOf(writes[n], key)[i])
             = Occurrences(before, ListOf(writes[n], key)[i])
                 + Occurrences(ListOf(writes["intel"], key), ListOf(writes[n], key)[i])
                 + Occurrences(ListOf(writes["detection"], key), ListOf(writes[n], key)[i])
                 + Occurrences(ListOf(writes["mitigation"], key), ListOf(writes[n], key)[i])

\* the timings `after` hold every entry of `before` and, for each sibling
\* that returned a duration, that duration under the sibling's own key
KeepsTimings(before, after) ==
    /\ \A k \in DOMAIN before : k \in DOMAIN after /\ after[k] = before[k]
    /\ \A n \in Siblings :
         "timings" \in DOMAIN writes[n] =>
             n \in DOMAIN after /\ after[n] = writes[n].timings[n]

\* C24: after the updates of intel, detection and mitigation are merged, in
\* any order, completed_agents and errors hold every earlier entry plus each
\* marker and each Error Record the three returned, exactly once each, and
\* timings holds every earlier entry plus each successful sibling's duration
\* under its own key.
C24_MergeKeepsAccumulators ==
    SiblingsMerging =>
        \A o \in Orders(Siblings) :
            /\ KeepsEntries("completed_agents", channels.completed_agents,
                            MergedIn(o).completed_agents)
            /\ KeepsEntries("errors", channels.errors, MergedIn(o).errors)
            /\ KeepsTimings(channels.timings, MergedIn(o).timings)

\* the merge of a failed intel with a successful detection and mitigation
\* into a state that already holds two markers and two durations
C24_Witness ==
    /\ SiblingsMerging
    /\ "errors" \in DOMAIN writes["intel"]
    /\ "timings" \in DOMAIN writes["detection"]
    /\ "timings" \in DOMAIN writes["mitigation"]
    /\ Len(channels.completed_agents) = 2
    /\ DOMAIN channels.timings = {"triage", "mapping"}

\* the final state holds an Error Record naming node n
HasErrorRecord(n) ==
    \E k \in DOMAIN channels.errors : channels.errors[k].agent = n

\* the final state records node n as completed
RecordedCompleted(n) ==
    \E k \in DOMAIN channels.completed_agents : channels.completed_agents[k] = n

\* C25: when the run has ended, every node whose work raised or could not
\* proceed has an Error Record naming it in the error list and is not
\* recorded as completed.
C25_FailureLeavesErrorRecord ==
    graph_pc = "ended" =>
        \A n \in Nodes :
            Failed(n) => HasErrorRecord(n) /\ ~RecordedCompleted(n)

-----------------------------------------------------------------------------
(* agents/*.py: the agent functions that work through a list of techniques. *)
(* A fetch is the work for one technique: one or two client calls, each of  *)
(* which returns or raises.                                                 *)

\* most techniques in one call explored
MaxFetches == 3

\* largest concurrency argument explored besides the default
MaxConcurrency == 2

\* `concurrency: int = 10`
DefaultConcurrency == 10

\* the functions that gather their fetches under a semaphore
Gathering == {"map_techniques", "enrich_with_mitigations"}

\* the functions that take the techniques one after the other
Looping == {"enrich_with_groups_and_software", "recommend_detection_telemetry"}

\* the initial value of the semaphore: `asyncio.Semaphore(concurrency)` in
\* map_techniques, `asyncio.Semaphore(max(1, concurrency))` in
\* enrich_with_mitigations
SemaphoreSize(fn, c) ==
    IF fn = "enrich_with_mitigations" THEN (IF c > 1 THEN c ELSE 1) ELSE c

SemLocked_Never(value) == FALSE

\* asyncio.Semaphore: acquire() has to wait while the value is 0
SemLocked(value) == value = 0

\* the value of the semaphore after a fetch of fn left `async with sem`
SemReleased(fn, value) == IF fn \in Gathering THEN value + 1 ELSE value

\* fetches inside `async with sem` (admitted and not yet finished)
Admitted == {i \in DOMAIN fetch_pc : fetch_pc[i] \in {"call1", "call2"}}

\* what the function returns once every fetch has ended: the techniques in
\* its output list, the ones reported as not found and the ones reported as
\* errors (map_techniques: confirmed, not_found, errors;
\* enrich_with_mitigations: mitigations, errors; the others: the list only)
StepResult(fn, res) ==
    [items |-> {i \in DOMAIN res : res[i] = "ok"},
     not_found |-> IF fn = "map_techniques"
                   THEN {i \in DOMAIN res : res[i] = "absent"} ELSE {},
     errors |-> IF fn \in Gathering
                THEN {i \in DOMAIN res : res[i] = "exc"} ELSE {}]

StepInit ==
    /\ agent_fn \in Gathering \cup Looping
    /\ agent_pc = "called"
    /\ techniques \in UNION {[1..k -> BOOLEAN] : k \in 0..MaxFetches}
    /\ agent_fn = "map_techniques" => \A i \in DOMAIN techniques : techniques[i]
    /\ IF agent_fn \in Gathering
       THEN concurrency \in (1..MaxConcurrency) \cup {DefaultConcurrency}
       ELSE concurrency = 0
    /\ sem = 0
    /\ fetch_pc = [i \in DOMAIN techniques |-> "new"]
    /\ fetch_res = [i \in DOMAIN techniques |-> "none"]
    /\ agent_result = EmptyDict

\* the function is called: with no techniques it returns at once, else it
\* creates the semaphore and the fetches (or enters its loop)
StepCalled ==
    /\ agent_pc = "called"
    /\ IF techniques = <<>>
       THEN /\ agent_pc' = "returned"
            /\ agent_result' = StepResult(agent_fn, fetch_res)
            /\ UNCHANGED sem
       ELSE /\ agent_pc' = "running"
            /\ sem' = IF agent_fn \in Gathering
                      THEN SemaphoreSize(agent_fn, concurrency) ELSE sem
            /\ UNCHANGED agent_result
    /\ UNCHANGED <<agent_fn, techniques, concurrency, fetch_pc, fetch_res>>

\* fetch i of a gathering function finds the semaphore at 0 and waits
FetchBlocks(i) ==
    /\ agent_pc = "running"
    /\ agent_fn \in Gathering
    /\ fetch_pc[i] = "new"
    /\ SemLocked(sem)
    /\ fetch_pc' = [fetch_pc EXCEPT ![i] = "waiting"]
    /\ UNCHANGED <<agent_fn, agent_pc, techniques, concurrency, sem, fetch_res,
                   agent_result>>

\* fetch i starts: under a gathering function when the semaphore admits it,
\* in a loop when the techniques before it are done.  A technique without
\* stix_id is passed over without a call (map_techniques looks techniques up
\* by their id and always calls).
FetchStarts(i) ==
    /\ agent_pc = "running"
    /\ IF agent_fn \in Gathering
       THEN fetch_pc[i] \in {"new", "waiting"} /\ ~SemLocked(sem)
       ELSE fetch_pc[i] = "new" /\ \A j \in 1..(i - 1) : fetch_pc[j] = "done"
    /\ IF agent_fn = "map_techniques" \/ techniques[i]
       THEN /\ fetch_pc' = [fetch_pc EXCEPT ![i] = "call1"]
            /\ sem' = IF agent_fn \in Gathering THEN sem - 1 ELSE sem
            /\ UNCHANGED fetch_res
       ELSE /\ fetch_pc' = [fetch_pc EXCEPT ![i] = "done"]
            /\ fetch_res' = [fetch_res EXCEPT ![i] = "skipped"]
            /\ UNCHANGED sem
    /\ UNCHANGED <<agent_fn, agent_pc, techniques, concurrency, agent_result>>

\* where a fetch of fn goes when its first call returned; flag is what the
\* answer says: the technique was found (map_techniques, which then asks
\* for its tactics), data components were found
\* (recommend_detection_telemetry, which else asks for the technique
\* object), the payload is a dict (enrich_with_mitigations);
\* enrich_with_groups_and_software always makes its second call
AfterFirstCall(fn, flag) ==
    IF fn = "map_techniques" THEN (IF flag THEN "call2" ELSE "absent")
    ELSE IF fn = "enrich_with_groups_and_software" THEN "call2"
    ELSE IF fn = "recommend_detection_telemetry" THEN (IF flag THEN "ok" ELSE "call2")
    ELSE (IF flag THEN "ok" ELSE "skipped")

\* fetch i ends with outcome res
FetchEnds(i, res) ==
    /\ fetch_pc' = [fetch_pc EXCEPT ![i] = "done"]
    /\ fetch_res' = [fetch_res EXCEPT ![i] = res]
    /\ sem' = SemReleased(agent_fn, sem)

\* the client call fetch i awaits returns
CallReturns(i) ==
    /\ agent_pc = "running"
    /\ \/ /\ fetch_pc[i] = "call1"
          /\ \E flag \in BOOLEAN :
               /\ agent_fn = "enrich_with_groups_and_software" => flag
               /\ IF AfterFirstCall(agent_fn, flag) = "call2"
                  THEN /\ fetch_pc' = [fetch_pc EXCEPT ![i] = "call2"]
                       /\ UNCHANGED <<fetch_res, sem>>
                  ELSE FetchEnds(i, AfterFirstCall(agent_fn, flag))
       \/ /\ fetch_pc[i] = "call2"
          /\ FetchEnds(i, "ok")
    /\ UNCHANGED <<agent_fn, agent_pc, techniques, concurrency, agent_result>>

\* the client call fetch i awaits raises: gather(return_exceptions=True)
\* keeps the exception as the result of the fetch; in a loop nothing catches
\* it and the function raises
CallRaises(i) ==
    /\ agent_pc = "running"
    /\ fetch_pc[i] \in {"call1", "call2"}
    /\ FetchEnds(i, "exc")
    /\ agent_pc' = IF agent_fn \in Looping THEN "raised" ELSE agent_pc
    /\ UNCHANGED <<agent_fn, techniques, concurrency, agent_result>>

\* every fetch has ended: the function sorts the results and returns
StepReturns ==
    /\ agent_pc = "running"
    /\ \A i \in DOMAIN fetch_pc : fetch_pc[i] = "done"
    /\ agent_pc' = "returned"
    /\ agent_result' = StepResult(agent_fn, fetch_res)
    /\ UNCHANGED <<agent_fn, techniques, concurrency, sem, fetch_pc, fetch_res>>

notStep == <<vars, retryVars, nodeVars, graphVars, routerVars>>

StepNext ==
    \/ StepCalled /\ UNCHANGED notStep
    \/ \E i \in 1..MaxFetches :
        \/ i \in DOMAIN fetch_pc /\ FetchBlocks(i) /\ UNCHANGED notStep
        \/ i \in DOMAIN fetch_pc /\ FetchStarts(i) /\ UNCHANGED notStep
        \/ i \in DOMAIN fetch_pc /\ CallReturns(i) /\ UNCHANGED notStep
        \/ i \in DOMAIN fetch_pc /\ CallRaises(i) /\ UNCHANGED notStep
    \/ StepReturns /\ UNCHANGED notStep

StepOnlyInit == StepInit /\ Init /\ RetryOff /\ NodeOff /\ GraphOff /\ RouterOff

StepSpec == StepOnlyInit /\ [][StepNext]_allVars

\* C26: in mapping, intel, detection and mitigation a client call that
\* raises for one technique never makes the function raise, and when the
\* function has returned every technique has been processed and each one
\* whose calls all returned is in its output, the failing one being at most
\* an entry of its error list.
C26_ItemFailureIsolated ==
    /\ agent_pc # "raised"
    /\ agent_pc = "returned" =>
         /\ \A i \in DOMAIN fetch_pc : fetch_pc[i] = "done"
         /\ \A i \in DOMAIN fetch_res :
              /\ fetch_res[i] = "ok" => i \in agent_result.items
              /\ fetch_res[i] = "exc" => i \notin agent_result.items

\* C27: during map_techniques and enrich_with_mitigations the fetches
\* admitted by the semaphore, and so the client calls in flight, are never
\* more than `concurrency`.
C27_AdmissionBounded ==
    agent_fn \in Gathering =>
        /\ Cardinality(Admitted) <= concurrency
        /\ sem >= 0
        /\ agent_pc = "running" =>
             sem + Cardinality(Admitted) = SemaphoreSize(agent_fn, concurrency)

\* two fetches are admitted under concurrency 2 and a third one waits
C27_Witness ==
    /\ agent_fn \in Gathering
    /\ concurrency = 2
    /\ Cardinality(Admitted) = 2
    /\ \E i \in DOMAIN fetch_pc : fetch_pc[i] = "waiting"

-----------------------------------------------------------------------------
(* The node functions wired as the chain triage -> mapping -> report.       *)

\* the edges of the chain
ChainEdges ==
    {<<START, "triage">>,
     <<"triage", "mapping">>,
     <<"mapping", "report">>,
     <<"report", END>>}

ChainInit ==
    /\ graph_pc = "new"
    /\ \E text, client \in BOOLEAN : channels = create_initial_state(text, client)
    /\ superstep = 0
    /\ active = {}
    /\ task_pc = [n \in Nodes |-> "idle"]
    /\ writes = [n \in Nodes |-> EmptyDict]
    /\ route = "none"
    /\ runs = [n \in Nodes |-> 0]
    /\ edges = ChainEdges
    /\ outcomes = [n \in Nodes |-> <<>>]

ChainOnlyInit ==
    ChainInit /\ Init /\ RetryOff /\ NodeOff /\ RouterOff /\ StepOff

ChainSpec == ChainOnlyInit /\ [][GraphNext]_allVars

\* the one execution of node n returned a completed marker
Succeeded(n) ==
    /\ Len(outcomes[n]) = 1
    /\ "completed_agents" \in DOMAIN outcomes[n][1].update

\* the fields triage_node writes when it succeeds
TriageFields ==
    {"triage_summary", "technique_candidates", "technique_ids",
     "completed_agents", "timings"}

\* C28: in the chain triage -> mapping -> report started with an incident
\* text, when triage succeeded and mapping failed, report's check of its
\* inputs fails, the final state holds exactly two Error Records, the first
\* naming mapping and the second report, and no field differs from the
\* initial state except errors and the fields triage wrote.
C28_ChainMappingFails ==
    (/\ graph_pc = "ended"
     /\ channels.incident_text
     /\ Succeeded("triage")
     /\ Failed("mapping"))
        => /\ Len(outcomes["report"]) = 1
           /\ outcomes["report"][1].kind = "missing"
           /\ Len(channels.errors) = 2
           /\ channels.errors[1].agent = "mapping"
           /\ channels.errors[2].agent = "report"
           /\ DOMAIN outcomes["mapping"][1].update = {"errors"}
           /\ DOMAIN outcomes["report"][1].update = {"errors"}
           /\ \A k \in DOMAIN channels :
                k \notin TriageFields \cup {"errors"} =>
                    /\ k \in DOMAIN create_initial_state(TRUE, channels.mcp_client)
                    /\ channels[k] = create_initial_state(TRUE, channels.mcp_client)[k]

\* the chain ended after triage succeeded and the agent call of mapping
\* raised
C28_Witness ==
    /\ graph_pc = "ended"
    /\ edges = ChainEdges
    /\ channels.incident_text
    /\ Succeeded("triage")
    /\ outcomes["mapping"][1].kind = "raised"
    /\ Len(channels.errors) = 2

-----------------------------------------------------------------------------
(* What report needs of the other nodes.                                    *)

\* the state holds the outputs of triage, mapping, intel and detection that
\* report reads: a triage summary, confirmed techniques, intel, detections
HasRequired(state) ==
    /\ "triage_summary" \in DOMAIN state /\ state.triage_summary
    /\ "confirmed_techniques" \in DOMAIN state /\ state.confirmed_techniques > 0
    /\ "intel" \in DOMAIN state /\ DOMAIN state.intel # {}
    /\ "detections" \in DOMAIN state /\ DOMAIN state.detections # {}

\* an execution of report ends in this step
ReportEnds == Len(outcomes'["report"]) = Len(outcomes["report"]) + 1

\* how the execution of report that ends in this step ended
ReportOutcome == outcomes'["report"][Len(outcomes'["report"])]

\* C29: an execution of report that finds the outputs of triage, mapping,
\* intel and detection and whose generation does not raise returns its
\* output and its completed marker, whatever mitigation, detection_reasoning
\* and visualization left; an execution that finds one of the four outputs
\* missing or empty returns no completed marker.
C29_ReportNeedsFourOutputs ==
    [][ReportEnds =>
          /\ (HasRequired(channels) /\ ReportOutcome.kind # "raised") =>
                /\ {"report", "report_markdown", "completed_agents"}
                       \subseteq DOMAIN ReportOutcome.update
                /\ ReportOutcome.update.completed_agents = <<"report">>
          /\ ~HasRequired(channels) =>
                "completed_agents" \notin DOMAIN ReportOutcome.update]_allVars

\* report is recorded as completed in a final state that holds Error Records
\* of mitigation and of visualization
C29_Witness ==
    /\ graph_pc = "ended"
    /\ RecordedCompleted("report")
    /\ HasErrorRecord("mitigation")
    /\ HasErrorRecord("visualization")
    /\ ~RecordedCompleted("mitigation")

-----------------------------------------------------------------------------
(* The input fields of the workflow state.                                  *)

\* the fields create_initial_state sets from its arguments
InputFields == {"incident_text", "domain", "llm_model", "mcp_client"}

-----------------------------------------------------------------------------
(* The client after close(), and after a failed connection attempt.         *)

\* some close() has returned (without raising)
CloseReturned ==
    \E t \in Tasks :
        op[t] = "close" /\ pc[t] = "done" /\ result[t] \in {"closed", "noop"}

\* the client holds a session that is being set up or is open
HoldsSession ==
    session = "obj" /\ sessState \in {"entering", "initializing", "ready"}

\* the client holds a transport that is being set up or is open
HoldsTransport ==
    ctx = "obj" /\ transState \in {"entering", "open"}

\* C31: once a close() has returned, the client holds no session and no
\* transport that is open or being opened, also when a connect() was in
\* progress during close() and finishes afterwards.
C31_NothingOpenAfterClose ==
    CloseReturned => ~HoldsSession /\ ~HoldsTransport

\* C32: once an attempt to connect has failed in the session's __aenter__ or
\* initialize, no connect() returns as if the client were connected and no
\* call starts a remote invocation on the session that failed.
C32_FailedAttemptNotConnected ==
    [][sessState = "failed" =>
          \A t \in Tasks :
              /\ (pc[t] # "invoke") => (pc'[t] # "invoke")
              /\ (pc[t] # "done" /\ pc'[t] = "done" /\ op'[t] = "connect")
                     => result'[t] # "ok"]_allVars

-----------------------------------------------------------------------------
(* What the executions of the nodes leave in the accumulators.              *)

\* the update holds exactly one marker of node n and no Error Record
OneMarker(n, update) ==
    /\ "completed_agents" \in DOMAIN update
    /\ update.completed_agents = <<n>>
    /\ "errors" \notin DOMAIN update

\* the update holds exactly one Error Record and no marker
OneErrorRecord(update) ==
    /\ "errors" \in DOMAIN update
    /\ Len(update.errors) = 1
    /\ "completed_agents" \notin DOMAIN update

RECURSIVE Executions(_)
\* executions of the nodes in S that have returned
Executions(S) ==
    IF S = {} THEN 0
    ELSE LET n == CHOOSE m \in S : TRUE
         IN Len(outcomes[n]) + Executions(S \ {n})

\* executions that returned in the superstep in progress: their updates are
\* not merged yet
Unmerged == Cardinality({n \in active : task_pc[n] = "done"})

\* C33: the update of every execution of a node holds either exactly one
\* completed_agents entry naming the node or exactly one Error Record, never
\* both and never neither, and in every state of a run
\* len(completed_agents) + len(errors) is the number of executions merged
\* so far.
C33_OneMarkerPerExecution ==
    graph_pc # "off" =>
        /\ \A n \in Nodes : \A i \in DOMAIN outcomes[n] :
             \/ OneMarker(n, outcomes[n][i].update)
             \/ OneErrorRecord(outcomes[n][i].update)
        /\ Len(channels.completed_agents) + Len(channels.errors)
              = Executions(Nodes) - Unmerged

\* a finished run in which report was executed twice and both accumulators
\* have entries
C33_Witness ==
    /\ graph_pc = "ended"
    /\ runs["report"] = 2
    /\ Len(channels.errors) > 0
    /\ Len(channels.completed_agents) > 0
    /\ Len(channels.completed_agents) + Len(channels.errors) = Executions(Nodes)

\* C34: in every state of a run, mapping is recorded as completed only if
\* triage is and confirmed_techniques is not empty; intel, detection,
\* mitigation and visualization only if mapping is; detection_reasoning only
\* if detection is; report only if triage, mapping, intel and detection are.
C34_CompletionRespectsDependencies ==
    graph_pc # "off" =>
        /\ RecordedCompleted("mapping") =>
              RecordedCompleted("triage") /\ channels.confirmed_techniques > 0
        /\ \A n \in {"intel", "detection", "mitigation", "visualization"} :
              RecordedCompleted(n) => RecordedCompleted("mapping")
        /\ RecordedCompleted("detection_reasoning") => RecordedCompleted("detection")
        /\ RecordedCompleted("report") =>
              \A n \in {"triage", "mapping", "intel", "detection"} :
                  RecordedCompleted(n)

\* a finished run in which all eight nodes are recorded as completed
C34_Witness ==
    /\ graph_pc = "ended"
    /\ \A n \in Nodes : RecordedCompleted(n)

\* some execution of node n returned an Error Record
ReturnedError(n) ==
    \E i \in DOMAIN outcomes[n] : "errors" \in DOMAIN outcomes[n][i].update

\* the Error Records of the state that name node n
RecordsNaming(n) ==
    {k \in DOMAIN channels.errors : channels.errors[k].agent = n}

\* the nodes after triage on the path without detection_reasoning
AfterTriage ==
    {"mapping", "intel", "detection", "mitigation", "visualization", "report"}

\* C35: in the full graph, when triage succeeded and mapping failed,
\* detection_reasoning is never executed and the final state holds
\* completed_agents = [triage], exactly six Error Records, one naming each of
\* mapping, intel, detection, mitigation, visualization and report, and no
\* field that differs from the initial state except errors and the fields
\* triage wrote.
C35_MappingFailureCascades ==
    (/\ graph_pc = "ended"
     /\ edges = Edges
     /\ Succeeded("triage")
     /\ ReturnedError("mapping"))
        => /\ runs["detection_reasoning"] = 0
           /\ channels.completed_agents = <<"triage">>
           /\ Len(channels.errors) = 6
           /\ \A n \in AfterTriage : Cardinality(RecordsNaming(n)) = 1
           /\ \A k \in DOMAIN channels :
                k \notin TriageFields \cup {"errors"} =>
                    /\ k \in DOMAIN create_initial_state(TRUE, channels.mcp_client)
                    /\ channels[k] = create_initial_state(TRUE, channels.mcp_client)[k]

\* the full graph ended after triage succeeded and mapping found no client
C35_Witness ==
    /\ graph_pc = "ended"
    /\ edges = Edges
    /\ Succeeded("triage")
    /\ ~channels.mcp_client
    /\ outcomes["mapping"][1].kind = "missing"
    /\ Len(channels.errors) = 6

\* C36: in every run of the graph, with or without a client, every Error
\* Record names the node whose execution returned it, in the update and in
\* the state; the checks of intel, detection and visualization that name
\* "mapping" for a missing client are never the ones that fail.
C36_ErrorRecordNamesProducer ==
    graph_pc # "off" =>
        /\ \A n \in Nodes : \A i \in DOMAIN outcomes[n] :
             \A j \in DOMAIN ErrorsOf(outcomes[n][i].update) :
                 ErrorsOf(outcomes[n][i].update)[j].agent = n
        /\ \A n \in Nodes :
             Cardinality(RecordsNaming(n)) <= Len(outcomes[n])
        /\ \A k \in DOMAIN channels.errors : channels.errors[k].agent \in Nodes

\* a run without a client ended: intel, detection and visualization each
\* left an Error Record under their own name
C36_Witness ==
    /\ graph_pc = "ended"
    /\ ~channels.mcp_client
    /\ channels.incident_text
    /\ \A n \in {"intel", "detection", "visualization"} :
         Cardinality(RecordsNaming(n)) = 1
    /\ Cardinality(RecordsNaming("mapping")) = 1

-----------------------------------------------------------------------------
(* A node function as the graph calls it: the wrapper of retry_async around *)
(* the node body.                                                           *)

Caught_NotMapping(n) == n # "mapping"

\* the work of node n is inside `try: ... except Exception:` whose handler
\* returns an update (every node function of nodes.py)
Caught(n) == n \in Nodes

WrappedInit ==
    /\ node_name \in Nodes
    /\ node_in \in NodeInputs
    /\ node_pc = "off"
    /\ node_out = EmptyDict
    /\ max_attempts \in 1..MaxAttemptsBound
    /\ backoff \in Backoffs
    /\ func_raises = 0 /\ func_value = "none"
    /\ attempt = 0 /\ invocations = 0 /\ sleeps = <<>> /\ last_exception = 0
    /\ retry_pc = "ready" /\ retry_result = "none"

\* the graph calls the node: the wrapper enters its loop and invokes the body
WrapperCalled ==
    /\ retry_pc = "ready"
    /\ loop_iter(1, 0)
    /\ node_pc' = "ready"
    /\ UNCHANGED <<retryInputs, sleeps, last_exception, node_name, node_in, node_out>>

\* the body runs from its first line to its return or its await
BodyRuns ==
    /\ retry_pc = "func"
    /\ NodeCalled
    /\ UNCHANGED retryVars

\* the agent call the body awaits returns and the body returns its update
BodyAgentReturns ==
    /\ retry_pc = "func"
    /\ AgentReturns
    /\ UNCHANGED retryVars

\* `except Exception as e:` of the wrapper: keep the exception, then sleep
\* before the next attempt or leave the loop and raise
WrapperObserves ==
    /\ last_exception' = invocations
    /\ IF MoreAttempts(attempt, max_attempts)
       THEN /\ sleeps' = Append(sleeps, WaitTime(backoff, attempt))
            /\ retry_pc' = "sleep"
            /\ UNCHANGED <<attempt, invocations, retry_result>>
       ELSE /\ loop_iter(attempt + 1, invocations)
            /\ UNCHANGED sleeps
    /\ UNCHANGED retryInputs

\* the agent call the body awaits raises: the handler of the body returns an
\* update; an exception the body did not catch would reach the wrapper
BodyAgentRaises ==
    /\ retry_pc = "func"
    /\ node_pc = "agent"
    /\ IF Caught(node_name)
       THEN /\ AgentRaises
            /\ UNCHANGED retryVars
       ELSE /\ node_pc' = "raised"
            /\ WrapperObserves
            /\ UNCHANGED <<node_name, node_in, node_out>>

\* the wrapper resumes: after a sleep it invokes the body again, after the
\* body returned it returns the body's update
WrapperResumes ==
    IF retry_pc = "sleep"
    THEN /\ loop_iter(attempt + 1, last_exception)
         /\ node_pc' = "ready"
         /\ UNCHANGED <<retryInputs, sleeps, last_exception, node_name, node_in,
                        node_out>>
    ELSE /\ retry_pc = "func"
         /\ node_pc = "returned"
         /\ retry_pc' = "done"
         /\ retry_result' = "returned"
         /\ UNCHANGED <<retryInputs, attempt, invocations, sleeps, last_exception,
                        nodeVars>>

notWrapped == <<vars, graphVars, routerVars, stepVars>>

WrappedNext ==
    \/ WrapperCalled /\ UNCHANGED notWrapped
    \/ BodyRuns /\ UNCHANGED notWrapped
    \/ BodyAgentReturns /\ UNCHANGED notWrapped
    \/ BodyAgentRaises /\ UNCHANGED notWrapped
    \/ WrapperResumes /\ UNCHANGED notWrapped

WrappedOnlyInit == WrappedInit /\ Init /\ GraphOff /\ RouterOff /\ StepOff

WrappedSpec == WrappedOnlyInit /\ [][WrappedNext]_allVars

\* C37: whatever max_attempts is, the wrapper around a node never catches an
\* exception: it never sleeps, it invokes the body at most once, and when it
\* is done it has invoked the body exactly once and returns the body's
\* update.
C37_WrapperNeverRetries ==
    retry_pc # "off" =>
        /\ sleeps = <<>>
        /\ last_exception = 0
        /\ retry_pc # "sleep"
        /\ invocations <= 1
        /\ retry_pc = "done" =>
             /\ invocations = 1
             /\ retry_result = "returned"
             /\ node_pc = "returned"

\* mapping_node under 3 attempts: its agent call raised, the body returned
\* an Error Record and the wrapper is done after one invocation
C37_Witness ==
    /\ retry_pc = "done"
    /\ node_name = "mapping"
    /\ max_attempts = 3
    /\ invocations = 1
    /\ "errors" \in DOMAIN node_out
    /\ node_out.errors[1].error = "exception"

====
